---- MODULE Spec2Model ----
(***************************************************************************)
(* A model of src/web.rs of Moonfire NVR: the HTTP API of the recorder.    *)
(*                                                                         *)
(* Text (paths, query values, header values) is modelled as TLA+ strings,  *)
(* read character by character with Len and SubSeq.  Byte strings (session *)
(* ids, hashes) are sequences of integers in 0..255.                       *)
(***************************************************************************)
EXTENDS Integers, Sequences, FiniteSets, TLC

(***************************************************************************)
(* Text helpers (Rust's str methods used by web.rs).                       *)
(***************************************************************************)
\* Option<T>: Some(v) or Nothing.
Some(v) == [some |-> TRUE, v |-> v]

Nothing == [some |-> FALSE]

\* let v = ...; F(v): the value is computed once and named.
Let(v, F(_)) == F(v)

Ch(s, i) == SubSeq(s, i, i)

starts_with(s, p) == Len(s) >= Len(p) /\ SubSeq(s, 1, Len(p)) = p

ends_with(s, p) == Len(s) >= Len(p) /\ SubSeq(s, Len(s) - Len(p) + 1, Len(s)) = p

\* &s[n..] : the text after the first n characters.
skip(s, n) == SubSeq(s, n + 1, Len(s))

\* str::find(c): the 1-based position of the first c in s, or 0.
RECURSIVE find_from(_, _, _)
find_from(s, c, i) ==
  IF i > Len(s) THEN 0 ELSE IF Ch(s, i) = c THEN i ELSE find_from(s, c, i + 1)

find(s, c) == find_from(s, c, 1)

Digits == {"0", "1", "2", "3", "4", "5", "6", "7", "8", "9"}

HexLower == Digits \cup {"a", "b", "c", "d", "e", "f"}

HexAny == HexLower \cup {"A", "B", "C", "D", "E", "F"}

all_in(s, set) == \A i \in 1..Len(s) : Ch(s, i) \in set

DigitVal ==
  [c \in Digits |->
     CASE c = "0" -> 0 [] c = "1" -> 1 [] c = "2" -> 2 [] c = "3" -> 3 [] c = "4" -> 4
       [] c = "5" -> 5 [] c = "6" -> 6 [] c = "7" -> 7 [] c = "8" -> 8 [] c = "9" -> 9]

\* The value of a non-empty run of decimal digits.
RECURSIVE DecVal(_)
DecVal(s) ==
  IF Len(s) = 0 THEN 0
  ELSE 10 * DecVal(SubSeq(s, 1, Len(s) - 1)) + DigitVal[Ch(s, Len(s))]

(***************************************************************************)
(* Path::decode (web.rs 93-164) and the parsers it calls.                  *)
(***************************************************************************)
HexVal ==
  [c \in HexAny |->
     IF c \in Digits THEN DigitVal[c]
     ELSE CASE c \in {"a", "A"} -> 10 [] c \in {"b", "B"} -> 11 [] c \in {"c", "C"} -> 12
            [] c \in {"d", "D"} -> 13 [] c \in {"e", "E"} -> 14 [] c \in {"f", "F"} -> 15]

\* base::strutil::dehex on 40 characters: 20 bytes, or Nothing when a character
\* is not one of 0-9 a-f.
dehex(s) ==
  IF Len(s) = 40 /\ all_in(s, HexLower)
    THEN Some([i \in 1..20 |-> 16 * HexVal[Ch(s, 2 * i - 1)] + HexVal[Ch(s, 2 * i)]])
    ELSE Nothing

\* uuid::Uuid::parse_str: the simple (32 hex digits) and the hyphenated
\* (8-4-4-4-12) forms, each with an optional urn:uuid: prefix; the value is
\* the 16 bytes, whatever the form and the case of the digits.
uuid_bytes(h) == [i \in 1..16 |-> 16 * HexVal[Ch(h, 2 * i - 1)] + HexVal[Ch(h, 2 * i)]]

uuid_parse_str(input) ==
  Let(IF starts_with(input, "urn:uuid:") THEN skip(input, 9) ELSE input, LAMBDA s :
    IF Len(s) = 32 /\ all_in(s, HexAny) THEN Some(uuid_bytes(s))
    ELSE IF /\ Len(s) = 36
            /\ Ch(s, 9) = "-" /\ Ch(s, 14) = "-" /\ Ch(s, 19) = "-" /\ Ch(s, 24) = "-"
      THEN Let(SubSeq(s, 1, 8) \o SubSeq(s, 10, 13) \o SubSeq(s, 15, 18)
                 \o SubSeq(s, 20, 23) \o SubSeq(s, 25, 36), LAMBDA digits :
             IF all_in(digits, HexAny) THEN Some(uuid_bytes(digits)) ELSE Nothing)
    ELSE Nothing)

\* db::StreamType::parse
StreamType_parse(t) ==
  IF t = "main" THEN Some("MAIN") ELSE IF t = "sub" THEN Some("SUB") ELSE Nothing

\* A value of enum Path; the fields a variant does not carry are Nothing.
PathOf(variant, uuid, type_, debug, sha1) ==
  [variant |-> variant, uuid |-> uuid, type_ |-> type_, debug |-> debug, sha1 |-> sha1]

PlainPath(variant) == PathOf(variant, Nothing, Nothing, FALSE, Nothing)

\* web.rs 126-162: the part of the path after "/cameras/".
decode_camera(path) ==
  Let(find(path, "/"), LAMBDA slash :
    IF slash = 0 THEN PlainPath("NotFound")
    ELSE
  Let(uuid_parse_str(SubSeq(path, 1, slash - 1)), LAMBDA uuid :
  Let(skip(path, slash), LAMBDA rest :
    IF ~uuid.some THEN PlainPath("NotFound")
    ELSE IF rest = "" THEN PathOf("Camera", uuid, Nothing, FALSE, Nothing)
    ELSE
  Let(find(rest, "/"), LAMBDA slash2 :
    IF slash2 = 0 THEN PlainPath("NotFound")
    ELSE
  Let(StreamType_parse(SubSeq(rest, 1, slash2 - 1)), LAMBDA type_ :
  Let(skip(rest, slash2 - 1), LAMBDA tail :
    IF ~type_.some THEN PlainPath("NotFound")
    ELSE CASE tail = "/recordings" -> PathOf("StreamRecordings", uuid, type_, FALSE, Nothing)
           [] tail = "/view.mp4" -> PathOf("StreamViewMp4", uuid, type_, FALSE, Nothing)
           [] tail = "/view.mp4.txt" -> PathOf("StreamViewMp4", uuid, type_, TRUE, Nothing)
           [] tail = "/view.m4s" -> PathOf("StreamViewMp4Segment", uuid, type_, FALSE, Nothing)
           [] tail = "/view.m4s.txt" -> PathOf("StreamViewMp4Segment", uuid, type_, TRUE, Nothing)
           [] tail = "/live.m4s" -> PathOf("StreamLiveMp4Segments", uuid, type_, FALSE, Nothing)
           [] OTHER -> PlainPath("NotFound")))))))

\* decode_init that never sets the debug flag.
decode_init_never_debug(path) ==
  Let(ends_with(path, ".txt"), LAMBDA debug :
  Let(IF debug THEN SubSeq(path, 1, Len(path) - 4) ELSE path, LAMBDA p :
    IF Len(p) # 50 \/ ~ends_with(p, ".mp4") THEN PlainPath("NotFound")
    ELSE Let(dehex(SubSeq(p, 7, 46)), LAMBDA sha1 :
           IF sha1.some THEN PathOf("InitSegment", Nothing, Nothing, FALSE, sha1)
           ELSE PlainPath("NotFound"))))

\* web.rs 109-122: a path that starts with "/init/".
decode_init(path) ==
  Let(ends_with(path, ".txt"), LAMBDA debug :
  Let(IF debug THEN SubSeq(path, 1, Len(path) - 4) ELSE path, LAMBDA p :
    IF Len(p) # 50 \/ ~ends_with(p, ".mp4") THEN PlainPath("NotFound")
    ELSE Let(dehex(SubSeq(p, 7, 46)), LAMBDA sha1 :
           IF sha1.some THEN PathOf("InitSegment", Nothing, Nothing, debug, sha1)
           ELSE PlainPath("NotFound"))))

Path_decode(full) ==
  IF ~starts_with(full, "/api/") THEN PlainPath("Static")
  ELSE Let(skip(full, 4), LAMBDA path :
         IF path = "/" THEN PlainPath("TopLevel")
         ELSE IF path = "/login" THEN PlainPath("Login")
         ELSE IF path = "/logout" THEN PlainPath("Logout")
         ELSE IF path = "/request" THEN PlainPath("Request")
         ELSE IF path = "/signals" THEN PlainPath("Signals")
         ELSE IF starts_with(path, "/init/") THEN decode_init(path)
         ELSE IF ~starts_with(path, "/cameras/") THEN PlainPath("NotFound")
         ELSE decode_camera(skip(path, 9)))


(***************************************************************************)
(* Segments::parse (web.rs 203-239).  SEGMENTS_RE (web.rs 69-70) is        *)
(*   ^(\d+)(-\d+)?(@\d+)?(?:\.(\d+)?-(\d+)?)?$                               *)
(* and matches greedily from the left: no group can give a digit back.     *)
(***************************************************************************)
I32_MAX == 2147483647

\* The largest values of i32, u32 and i64 in decimal: the parsers test the
\* range on the digits, since a u32 or an i64 can exceed the model's integers.
I32_MAX_TEXT == "2147483647"

U32_MAX_TEXT == "4294967295"

I64_MAX_TEXT == "9223372036854775807"

RECURSIVE strip_zeros(_)
strip_zeros(digits) ==
  IF Len(digits) > 1 /\ Ch(digits, 1) = "0" THEN strip_zeros(skip(digits, 1)) ELSE digits

\* a <= b for two runs of digits of the same length.
RECURSIVE digits_le(_, _)
digits_le(a, b) ==
  IF Len(a) = 0 THEN TRUE
  ELSE IF Ch(a, 1) # Ch(b, 1) THEN DigitVal[Ch(a, 1)] < DigitVal[Ch(b, 1)]
  ELSE digits_le(skip(a, 1), skip(b, 1))

fits(digits, max_text) ==
  Let(strip_zeros(digits), LAMBDA t :
    Len(t) < Len(max_text) \/ (Len(t) = Len(max_text) /\ digits_le(t, max_text)))

\* The length of the run of decimal digits at the start of s.
RECURSIVE digit_run(_)
digit_run(s) ==
  IF Len(s) > 0 /\ Ch(s, 1) \in Digits THEN 1 + digit_run(skip(s, 1)) ELSE 0

\* An optional group: the character sep followed by at least one digit.
\* [len: the characters matched, text: the digits or Nothing].
opt_group(s, sep) ==
  Let(IF starts_with(s, sep) THEN digit_run(skip(s, 1)) ELSE 0, LAMBDA n :
    IF n > 0 THEN [len |-> 1 + n, text |-> Some(SubSeq(s, 2, 1 + n))]
    ELSE [len |-> 0, text |-> Nothing])

\* SEGMENTS_RE.captures(input): the five groups, or Nothing when there is no
\* match.  Groups 2 and 3 are given without their leading - and @.
segments_captures(input) ==
  Let(digit_run(input), LAMBDA n1 :
  Let(opt_group(skip(input, n1), "-"), LAMBDA g2 :
  Let(opt_group(skip(input, n1 + g2.len), "@"), LAMBDA g3 :
  Let(skip(input, n1 + g2.len + g3.len), LAMBDA r3 :
  Let(digit_run(skip(r3, 1)), LAMBDA n4 :
  Let(skip(r3, 1 + n4), LAMBDA r4 :
  Let(digit_run(skip(r4, 1)), LAMBDA n5 :
    IF n1 = 0 THEN Nothing
    ELSE IF r3 = ""
      THEN Some([g1 |-> SubSeq(input, 1, n1), g2 |-> g2.text, g3 |-> g3.text,
                 g4 |-> Nothing, g5 |-> Nothing])
    ELSE IF starts_with(r3, ".") /\ starts_with(r4, "-") /\ Len(r4) = 1 + n5
      THEN Some([g1 |-> SubSeq(input, 1, n1), g2 |-> g2.text, g3 |-> g3.text,
                 g4 |-> IF n4 > 0 THEN Some(SubSeq(r3, 2, 1 + n4)) ELSE Nothing,
                 g5 |-> IF n5 > 0 THEN Some(skip(r4, 1)) ELSE Nothing])
    ELSE Nothing)))))))

\* {i32,u32,i64}::from_str on a run of digits: Nothing when the value does
\* not fit the type whose largest value is max_text.  (A value that fits a
\* u32 or an i64 and is above I32_MAX is outside the model's integers; no
\* input of the model carries one.)
int_from_str(digits, max_text) ==
  IF fits(digits, max_text) THEN Some(DecVal(strip_zeros(digits))) ELSE Nothing

SegErr == [kind |-> "Err"]

\* Segments::parse without the check of the order of the ids.
Segments_parse_unordered(input, overflow_checks) ==
  Let(segments_captures(input), LAMBDA caps :
    IF ~caps.some THEN SegErr
    ELSE
  Let(caps.v, LAMBDA c :
  Let(int_from_str(c.g1, I32_MAX_TEXT), LAMBDA ids_start :
  Let(IF c.g2.some THEN int_from_str(c.g2.v, I32_MAX_TEXT) ELSE ids_start, LAMBDA last :
  Let(IF c.g3.some THEN int_from_str(c.g3.v, U32_MAX_TEXT) ELSE Nothing, LAMBDA open_id :
  Let(IF c.g4.some THEN int_from_str(c.g4.v, I64_MAX_TEXT) ELSE Some(0), LAMBDA start_time :
  Let(IF c.g5.some THEN int_from_str(c.g5.v, I64_MAX_TEXT) ELSE Nothing, LAMBDA e :
    IF ~ids_start.some THEN SegErr
    ELSE IF ~last.some THEN SegErr
    ELSE IF last.v = I32_MAX /\ overflow_checks THEN [kind |-> "Panic"]
    ELSE
  Let(IF last.v = I32_MAX THEN 0 - I32_MAX - 1 ELSE last.v + 1, LAMBDA ids_end :
    IF c.g3.some /\ ~open_id.some THEN SegErr
    ELSE IF ids_start.v < 0 THEN SegErr
    ELSE IF ~start_time.some THEN SegErr
    ELSE IF start_time.v < 0 THEN SegErr
    ELSE IF c.g5.some /\ ~e.some THEN SegErr
    ELSE IF c.g5.some /\ e.v <= start_time.v THEN SegErr
    ELSE [kind |-> "Ok",
          ids_start |-> ids_start.v,
          ids_end |-> ids_end,
          open_id |-> open_id,
          start_time |-> start_time.v,
          end_time |-> e]))))))))

\* Segments::parse that forgets the open id.
Segments_parse_open_dropped(input, overflow_checks) ==
  Let(segments_captures(input), LAMBDA caps :
    IF ~caps.some THEN SegErr
    ELSE
  Let(caps.v, LAMBDA c :
  Let(int_from_str(c.g1, I32_MAX_TEXT), LAMBDA ids_start :
  Let(IF c.g2.some THEN int_from_str(c.g2.v, I32_MAX_TEXT) ELSE ids_start, LAMBDA last :
  Let(IF c.g3.some THEN int_from_str(c.g3.v, U32_MAX_TEXT) ELSE Nothing, LAMBDA open_id :
  Let(IF c.g4.some THEN int_from_str(c.g4.v, I64_MAX_TEXT) ELSE Some(0), LAMBDA start_time :
  Let(IF c.g5.some THEN int_from_str(c.g5.v, I64_MAX_TEXT) ELSE Nothing, LAMBDA e :
    IF ~ids_start.some THEN SegErr
    ELSE IF ~last.some THEN SegErr
    ELSE IF last.v = I32_MAX /\ overflow_checks THEN [kind |-> "Panic"]
    ELSE
  Let(IF last.v = I32_MAX THEN 0 - I32_MAX - 1 ELSE last.v + 1, LAMBDA ids_end :
    IF c.g3.some /\ ~open_id.some THEN SegErr
    ELSE IF ids_start.v < 0 \/ ids_end <= ids_start.v THEN SegErr
    ELSE IF ~start_time.some THEN SegErr
    ELSE IF start_time.v < 0 THEN SegErr
    ELSE IF c.g5.some /\ ~e.some THEN SegErr
    ELSE IF c.g5.some /\ e.v <= start_time.v THEN SegErr
    ELSE [kind |-> "Ok",
          ids_start |-> ids_start.v,
          ids_end |-> ids_end,
          open_id |-> Nothing,
          start_time |-> start_time.v,
          end_time |-> e]))))))))

\* Segments::parse that takes the end id as exclusive.
Segments_parse_exclusive_end(input, overflow_checks) ==
  Let(segments_captures(input), LAMBDA caps :
    IF ~caps.some THEN SegErr
    ELSE
  Let(caps.v, LAMBDA c :
  Let(int_from_str(c.g1, I32_MAX_TEXT), LAMBDA ids_start :
  Let(IF c.g2.some THEN int_from_str(c.g2.v, I32_MAX_TEXT) ELSE ids_start, LAMBDA last :
  Let(IF c.g3.some THEN int_from_str(c.g3.v, U32_MAX_TEXT) ELSE Nothing, LAMBDA open_id :
  Let(IF c.g4.some THEN int_from_str(c.g4.v, I64_MAX_TEXT) ELSE Some(0), LAMBDA start_time :
  Let(IF c.g5.some THEN int_from_str(c.g5.v, I64_MAX_TEXT) ELSE Nothing, LAMBDA e :
    IF ~ids_start.some THEN SegErr
    ELSE IF ~last.some THEN SegErr
    ELSE IF last.v = I32_MAX /\ overflow_checks THEN [kind |-> "Panic"]
    ELSE
  Let(IF last.v = I32_MAX THEN 0 - I32_MAX - 1
      ELSE IF c.g2.some THEN last.v ELSE last.v + 1, LAMBDA ids_end :
    IF c.g3.some /\ ~open_id.some THEN SegErr
    ELSE IF ids_start.v < 0 \/ ids_end <= ids_start.v THEN SegErr
    ELSE IF ~start_time.some THEN SegErr
    ELSE IF start_time.v < 0 THEN SegErr
    ELSE IF c.g5.some /\ ~e.some THEN SegErr
    ELSE IF c.g5.some /\ e.v <= start_time.v THEN SegErr
    ELSE [kind |-> "Ok",
          ids_start |-> ids_start.v,
          ids_end |-> ids_end,
          open_id |-> open_id,
          start_time |-> start_time.v,
          end_time |-> e]))))))))

\* Segments::parse(input).  `ids_end = ... + 1` overflows i32 when the id is
\* I32_MAX: a build with overflow checks panics there, a build without them
\* wraps to -2^31; overflow_checks says which build runs.
Segments_parse(input, overflow_checks) ==
  Let(segments_captures(input), LAMBDA caps :
    IF ~caps.some THEN SegErr
    ELSE
  Let(caps.v, LAMBDA c :
  Let(int_from_str(c.g1, I32_MAX_TEXT), LAMBDA ids_start :
  Let(IF c.g2.some THEN int_from_str(c.g2.v, I32_MAX_TEXT) ELSE ids_start, LAMBDA last :
  Let(IF c.g3.some THEN int_from_str(c.g3.v, U32_MAX_TEXT) ELSE Nothing, LAMBDA open_id :
  Let(IF c.g4.some THEN int_from_str(c.g4.v, I64_MAX_TEXT) ELSE Some(0), LAMBDA start_time :
  Let(IF c.g5.some THEN int_from_str(c.g5.v, I64_MAX_TEXT) ELSE Nothing, LAMBDA e :
    IF ~ids_start.some THEN SegErr
    ELSE IF ~last.some THEN SegErr
    ELSE IF last.v = I32_MAX /\ overflow_checks THEN [kind |-> "Panic"]
    ELSE
  Let(IF last.v = I32_MAX THEN 0 - I32_MAX - 1 ELSE last.v + 1, LAMBDA ids_end :
    IF c.g3.some /\ ~open_id.some THEN SegErr
    ELSE IF ids_start.v < 0 \/ ids_end <= ids_start.v THEN SegErr
    ELSE IF ~start_time.some THEN SegErr
    ELSE IF start_time.v < 0 THEN SegErr
    ELSE IF c.g5.some /\ ~e.some THEN SegErr
    ELSE IF c.g5.some /\ e.v <= start_time.v THEN SegErr
    ELSE [kind |-> "Ok",
          ids_start |-> ids_start.v,
          ids_end |-> ids_end,
          open_id |-> open_id,
          start_time |-> start_time.v,
          end_time |-> e]))))))))

(***************************************************************************)
(* Base64 (the base64 crate's STANDARD_NO_PAD) on whole groups: session    *)
(* ids are 48 bytes (64 characters), session hashes 24 bytes (32).         *)
(***************************************************************************)
B64 == "ABCDEFGHIJKLMNOPQRSTUVWXYZabcdefghijklmnopqrstuvwxyz0123456789+/"

B64Chars == {Ch(B64, i) : i \in 1..64}

B64Index == [c \in B64Chars |-> (CHOOSE i \in 1..64 : Ch(B64, i) = c) - 1]

B64Char(n) == Ch(B64, n + 1)

\* Three bytes to four characters.
b64_group(b0, b1, b2) ==
  B64Char(b0 \div 4) \o B64Char((b0 % 4) * 16 + b1 \div 16)
    \o B64Char((b1 % 16) * 4 + b2 \div 64) \o B64Char(b2 % 64)

RECURSIVE b64_encode(_)
b64_encode(bytes) ==
  IF Len(bytes) < 3 THEN ""
  ELSE b64_group(bytes[1], bytes[2], bytes[3]) \o b64_encode(SubSeq(bytes, 4, Len(bytes)))

\* The bytes of 4 * n characters of the alphabet.
b64_decode(text) ==
  LET v(i) == B64Index[Ch(text, i)]
      byte(k) == \* k = 0, 1, ... ; its group starts at character 4 * (k \div 3) + 1
        LET g == 4 * (k \div 3)
        IN CASE k % 3 = 0 -> v(g + 1) * 4 + v(g + 2) \div 16
             [] k % 3 = 1 -> (v(g + 2) % 16) * 16 + v(g + 3) \div 4
             [] k % 3 = 2 -> (v(g + 3) % 4) * 64 + v(g + 4)
  IN [i \in 1..(3 * (Len(text) \div 4)) |-> byte(i - 1)]


(***************************************************************************)
(* Bounds of the model.                                                    *)
(***************************************************************************)
\* Sessions the database creates before logins are no longer explored.
MaxSessions == 2

\* Live responses before live.m4s requests are no longer explored.
MaxLive == 2

\* Fragments the writer flushes.
MaxFlush == 2

\* Requests in flight at a time.
MaxTasks == 2

(***************************************************************************)
(* The state.                                                              *)
(***************************************************************************)
VARIABLES
  allow_unauthenticated_permissions, \* ServiceInner: Option<db::Permissions>
  trust_forward_hdrs,                \* ServiceInner: bool
  sessions,      \* db: the stored sessions, a set of session records
  recordings,    \* db: the recordings of the test camera's main stream, id -> row
  open,          \* db.open: Option of the open id
  subs,          \* db: the live subscribers of the stream (indexes into live)
  flushed,       \* db: the fragments the stream's writer has flushed
  live,          \* one entry per live.m4s response: its channel and its body
  req,           \* the last request served
  resp,          \* the response to it
  invoked,       \* the handlers Service::serve called for it
  assembly,      \* what each s= parameter of it did (stream_view_mp4)
  built,         \* whether it reached FileBuilder::build (stream_view_mp4)
  issued,        \* history: the cookies successful logins returned
  logged_out,    \* history: the cookies a CSRF-valid logout succeeded for
  input,         \* the argument of the last call of Segments::parse or Path::decode
  output,        \* what the call returned
  lock,          \* db: the task that holds the database's mutex, 0 when it is free
  tasks          \* the futures hyper runs: each one's steps and its position in them

config == <<allow_unauthenticated_permissions, trust_forward_hdrs>>

db == <<sessions, recordings, open, subs, flushed>>

exchange == <<req, resp, invoked, assembly, built>>

history == <<issued, logged_out>>

call == <<input, output>>

sched == <<lock, tasks>>

vars == <<config, db, live, exchange, history, call, sched>>

(***************************************************************************)
(* The database's authentication contract (db::auth; its code is not in    *)
(* web.rs): a session is valid iff its hash is stored and it is not        *)
(* revoked.                                                                *)
(***************************************************************************)
Permissions(view_video, read_camera_configs, update_signals) ==
  [view_video |-> view_video, read_camera_configs |-> read_camera_configs,
   update_signals |-> update_signals]

\* db::Permissions::default()
Permissions_default == Permissions(FALSE, FALSE, FALSE)

\* The user the tests create (web.rs 1075-1078), with the permissions the
\* database gives its sessions.
Users == {[username |-> "slamb", password |-> "hunter2",
           permissions |-> Permissions(TRUE, FALSE, FALSE)]}

\* The k-th 48-byte session id the database's random generator draws, and
\* the 24-byte CSRF token of the session it creates with it.
RawSessionId(k) == [i \in 1..48 |-> (k * 89 + i * 7) % 256]

CsrfToken(k) == [i \in 1..24 |-> (k * 101 + i * 13 + 5) % 256]

\* RawSessionId::hash: 48 bytes to the 24-byte SessionHash under which the
\* session is stored (a stand-in for the keyed digest; distinct on the ids
\* generated).
sid_hash(sid) == [i \in 1..24 |-> (sid[i] + 2 * sid[i + 24] + i) % 256]

\* RawSessionId::decode_base64: 64 characters of the alphabet give 48 bytes.
RawSessionId_decode_base64(text) ==
  IF Len(text) = 64 /\ all_in(text, B64Chars) THEN Some(b64_decode(text)) ELSE Nothing

\* SessionHash::encode_base64: 24 bytes to 32 characters.
SessionHash_encode_base64(hash) == b64_encode(hash)

\* db.login_by_password: [ok, sid, sessions]; a new session when the user
\* exists and the password is right.
login_by_password(stored, username, password, secure) ==
  IF \E v \in Users : v.username = username /\ v.password = password
    THEN Let(RawSessionId(Cardinality(stored)), LAMBDA sid :
           [ok |-> TRUE, sid |-> sid,
            sessions |-> stored \cup
              {[hash |-> sid_hash(sid), csrf |-> CsrfToken(Cardinality(stored)),
                username |-> username,
                permissions |-> (CHOOSE u \in Users : u.username = username).permissions,
                secure |-> secure, revoked |-> FALSE]}])
    ELSE [ok |-> FALSE, sid |-> <<>>, sessions |-> stored]

\* db.authenticate_session: Some(session) when the hash is stored and the
\* session is not revoked.
authenticate_session(stored, hash) ==
  IF \E s \in stored : s.hash = hash /\ ~s.revoked
    THEN Some(CHOOSE s \in stored : s.hash = hash /\ ~s.revoked)
    ELSE Nothing

\* db.revoke_session(LoggedOut, ...)
revoke_session(stored, hash) ==
  {IF s.hash = hash THEN [s EXCEPT !.revoked = TRUE] ELSE s : s \in stored}


(***************************************************************************)
(* The paths and the Cookie headers of the model's requests.  Path::decode *)
(* and the cookie's decoding are evaluated once for each, in Routes and    *)
(* Sids.                                                                   *)
(***************************************************************************)
\* The test database's camera: a main stream (id 1) and no sub stream.
TEST_CAMERA_UUID == "35144640-ff1e-4619-b0d5-4c74c185741c"

CAMERA == "/api/cameras/" \o TEST_CAMERA_UUID

OTHER_CAMERA == "/api/cameras/00000000-0000-0000-0000-000000000000"

INIT_SEGMENT == "/api/init/07cec464126825088ea86a07eddd6a00afa71559.mp4"

\* Paths of routes that need an authenticated caller.
ProtectedPaths ==
  {"/api/", "/api/signals", INIT_SEGMENT, INIT_SEGMENT \o ".txt",
   CAMERA \o "/", CAMERA \o "/main/recordings",
   CAMERA \o "/main/view.mp4", CAMERA \o "/main/view.mp4.txt",
   CAMERA \o "/main/view.m4s", CAMERA \o "/sub/view.mp4",
   CAMERA \o "/main/live.m4s", CAMERA \o "/sub/live.m4s",
   OTHER_CAMERA \o "/", OTHER_CAMERA \o "/main/view.mp4", OTHER_CAMERA \o "/main/live.m4s"}

\* Paths of the routes Login, Logout, Request, NotFound and Static.
OpenPaths ==
  {"/api/login", "/api/logout", "/api/request", "/api/junk", CAMERA \o "/main/junk",
   "/", "/missing.html"}

Paths == ProtectedPaths \cup OpenPaths

Routes == [path \in Paths |-> Path_decode(path)]

\* The Cookie header a client sends for the k-th session id: what
\* tests::SessionCookie keeps of login's Set-Cookie.
CookieOf(k) == "s=" \o b64_encode(RawSessionId(k))

\* The Cookie headers of the requests: those of the session ids the
\* database can issue and of one it never issues; one behind another
\* cookie; an s cookie that is no session id; no s cookie.
CookieHeaders ==
  {CookieOf(k) : k \in 0..MaxSessions}
    \cup {"lang=en; " \o CookieOf(0), "s=abc", "lang=en"}

\* A request's Cookie header: one of these, or none.
Cookies == {Nothing} \cup {Some(c) : c \in CookieHeaders}


(***************************************************************************)
(* Requests and responses.                                                 *)
(*   request:  [method, path, query, cookie, content_type, host,           *)
(*              x_forwarded_proto, body]; a header that is absent is       *)
(*              Nothing, as is the query of a URI without one.             *)
(*   body:     [kind |-> "json", fields |-> a record of strings], or       *)
(*             [kind |-> "text"] (not JSON), or [kind |-> "io_error"] (the *)
(*             body cannot be read).                                       *)
(*   response: [status, content_type, cache_control, set_cookie,           *)
(*              x_open_id, body].                                          *)
(***************************************************************************)
Response(status, content_type, body) ==
  [status |-> status, content_type |-> content_type, cache_control |-> Nothing,
   set_cookie |-> Nothing, x_open_id |-> Nothing, body |-> body]

plain_response(status, body) == Response(status, Some("text/plain"), body)

not_found(body) == plain_response(404, body)

bad_req(body) == plain_response(400, body)

internal_server_err(err) == plain_response(500, err)

\* from_base_error that answers every error kind with 500.
from_base_error_opaque(kind) == plain_response(500, kind)

from_base_error(kind) ==
  plain_response(CASE kind \in {"PermissionDenied", "Unauthenticated"} -> 401
                   [] kind = "InvalidArgument" -> 400
                   [] kind = "NotFound" -> 404
                   [] OTHER -> 500,
                 kind)

\* What a handler returns: the response, the state it leaves, the handlers
\* that ran and, for the view handler, what each s= parameter did and
\* whether the builder's build step was reached.
Outcome(response, handlers) ==
  [resp |-> response, sessions |-> sessions, subs |-> subs, live |-> live,
   invoked |-> handlers, assembly |-> <<>>, built |-> FALSE]

\* s.split(c)
RECURSIVE split(_, _)
split(s, c) ==
  Let(find(s, c), LAMBDA at :
    IF at = 0 THEN <<s>> ELSE <<SubSeq(s, 1, at - 1)>> \o split(skip(s, at), c))

\* The first cookie of the list that is named s and decodes to a session id.
RECURSIVE first_sid(_)
first_sid(cookies) ==
  IF Len(cookies) = 0 THEN Nothing
  ELSE Let(IF starts_with(Head(cookies), " ") THEN skip(Head(cookies), 1) ELSE Head(cookies),
           LAMBDA c :
             IF ~starts_with(c, "s=") THEN first_sid(Tail(cookies))
             ELSE Let(RawSessionId_decode_base64(skip(c, 2)), LAMBDA sid :
                    IF sid.some THEN sid ELSE first_sid(Tail(cookies))))

\* extract_sid on a Cookie header (web.rs 738-749).
cookie_sid(hdr) == first_sid(split(hdr, ";"))

Sids == [hdr \in CookieHeaders |-> cookie_sid(hdr)]

extract_sid(r) == IF ~r.cookie.some THEN Nothing ELSE Sids[r.cookie.v]

Caller(permissions, session) == [ok |-> TRUE, permissions |-> permissions, session |-> session]

Unauthenticated == [ok |-> FALSE]

\* authenticate with the last fallback taken on every path.
authenticate_lenient(r, unauth_path) ==
  Let(IF extract_sid(r).some
        THEN authenticate_session(sessions, sid_hash(extract_sid(r).v))
        ELSE Nothing, LAMBDA s :
    IF s.some
      THEN Caller(s.v.permissions, Some([username |-> s.v.username, csrf |-> s.v.csrf]))
    ELSE IF allow_unauthenticated_permissions.some
      THEN Caller(allow_unauthenticated_permissions.v, Nothing)
    ELSE Caller(Permissions_default, Nothing))

\* authenticate with the anonymous permissions tried before the cookie.
authenticate_anonymous_first(r, unauth_path) ==
  Let(IF extract_sid(r).some
        THEN authenticate_session(sessions, sid_hash(extract_sid(r).v))
        ELSE Nothing, LAMBDA s :
    IF allow_unauthenticated_permissions.some
      THEN Caller(allow_unauthenticated_permissions.v, Nothing)
    ELSE IF s.some
      THEN Caller(s.v.permissions, Some([username |-> s.v.username, csrf |-> s.v.csrf]))
    ELSE IF unauth_path THEN Caller(Permissions_default, Nothing)
    ELSE Unauthenticated)

authenticate(r, unauth_path) ==
  Let(IF extract_sid(r).some
        THEN authenticate_session(sessions, sid_hash(extract_sid(r).v))
        ELSE Nothing, LAMBDA s :
    IF s.some
      THEN Caller(s.v.permissions, Some([username |-> s.v.username, csrf |-> s.v.csrf]))
    ELSE IF allow_unauthenticated_permissions.some
      THEN Caller(allow_unauthenticated_permissions.v, Nothing)
    ELSE IF unauth_path THEN Caller(Permissions_default, Nothing)
    ELSE Unauthenticated)

\* csrf_matches comparing only as many bytes as the request sent.
csrf_matches_prefix(csrf, session) ==
  SubSeq(SessionHash_encode_base64(session), 1, Len(csrf)) = csrf

\* ring's verify_slices_are_equal: the same length and the same bytes.
csrf_matches(csrf, session) == SessionHash_encode_base64(session) = csrf

\* is_secure that believes the header whether or not forwarders are trusted.
is_secure_untrusting(r) ==
  r.x_forwarded_proto.some /\ r.x_forwarded_proto.v = "https"

is_secure(r) ==
  trust_forward_hdrs /\ r.x_forwarded_proto.some /\ r.x_forwarded_proto.v = "https"

\* serde_json::from_slice into a struct with the given fields.
from_slice(body, required) ==
  body.kind = "json" /\ \A f \in required : f \in DOMAIN body.fields

\* with_json_body that takes the body of any method.
with_json_body_any_method(r) ==
  IF ~(r.content_type.some
       /\ r.content_type.v \in {"application/json", "application/json; charset=UTF-8"})
    THEN Some(bad_req("expected application/json request body"))
  ELSE IF r.body.kind = "io_error"
    THEN Some(internal_server_err("unable to read request body"))
  ELSE Nothing

\* with_json_body: Nothing when the body can be handed to the handler, else
\* the error response.
with_json_body(r) ==
  IF r.method # "POST" THEN Some(plain_response(405, "POST expected"))
  ELSE IF ~(r.content_type.some
            /\ r.content_type.v \in {"application/json", "application/json; charset=UTF-8"})
    THEN Some(bad_req("expected application/json request body"))
  ELSE IF r.body.kind = "io_error"
    THEN Some(internal_server_err("unable to read request body"))
  ELSE Nothing

login(r) ==
  IF ~from_slice(r.body, {"username", "password"})
    THEN Outcome(bad_req("invalid login request"), {"login"})
  ELSE IF ~r.host.some THEN Outcome(bad_req("missing Host header!"), {"login"})
  ELSE
  Let(is_secure(r), LAMBDA secure :
  Let(login_by_password(sessions, r.body.fields.username, r.body.fields.password, secure),
      LAMBDA l :
    IF ~l.ok THEN Outcome(plain_response(401, "login failed"), {"login"})
    ELSE
  Let(IF secure THEN "; HttpOnly; Secure; SameSite=Strict; Max-Age=2147483648; Path=/"
      ELSE "; HttpOnly; SameSite=Strict; Max-Age=2147483648; Path=/", LAMBDA s_suffix :
    [Outcome([Response(204, Nothing, "") EXCEPT
                !.set_cookie = Some("s=" \o b64_encode(l.sid) \o s_suffix)],
             {"login"})
       EXCEPT !.sessions = l.sessions])))

\* logout that clears the cookie and leaves the session as it is.
logout_without_revoke(r, revoke_ok) ==
  IF ~from_slice(r.body, {"csrf"})
    THEN Outcome(bad_req("invalid logout request"), {"logout"})
  ELSE
  Let(extract_sid(r), LAMBDA sid :
    IF ~sid.some THEN Outcome(Response(204, Nothing, ""), {"logout"})
    ELSE
  Let(sid_hash(sid.v), LAMBDA hash :
  Let(authenticate_session(sessions, hash), LAMBDA s :
  Let([Response(204, Nothing, "") EXCEPT !.set_cookie = Some("s=; Max-Age=0; Path=/")],
      LAMBDA res :
    IF ~s.some THEN Outcome(res, {"logout"})
    ELSE IF ~csrf_matches(r.body.fields.csrf, s.v.csrf)
      THEN Outcome(bad_req("logout with incorrect csrf token"), {"logout"})
    ELSE Outcome(res, {"logout"})))))

\* logout that appends the clearing cookie outside the if let.
logout_always_clears(r, revoke_ok) ==
  IF ~from_slice(r.body, {"csrf"})
    THEN Outcome(bad_req("invalid logout request"), {"logout"})
  ELSE
  Let(extract_sid(r), LAMBDA sid :
    IF ~sid.some THEN Outcome([Response(204, Nothing, "") EXCEPT
                                 !.set_cookie = Some("s=; Max-Age=0; Path=/")],
                              {"logout"})
    ELSE
  Let(sid_hash(sid.v), LAMBDA hash :
  Let(authenticate_session(sessions, hash), LAMBDA s :
  Let([Response(204, Nothing, "") EXCEPT !.set_cookie = Some("s=; Max-Age=0; Path=/")],
      LAMBDA res :
    IF ~s.some THEN Outcome(res, {"logout"})
    ELSE IF ~csrf_matches(r.body.fields.csrf, s.v.csrf)
      THEN Outcome(bad_req("logout with incorrect csrf token"), {"logout"})
    ELSE IF ~revoke_ok
      THEN Outcome(internal_server_err("revoke_session failed"), {"logout"})
    ELSE [Outcome(res, {"logout"}) EXCEPT !.sessions = revoke_session(sessions, hash)]))))

\* logout that refuses a cookie that does not authenticate.
logout_strict(r, revoke_ok) ==
  IF ~from_slice(r.body, {"csrf"})
    THEN Outcome(bad_req("invalid logout request"), {"logout"})
  ELSE
  Let(extract_sid(r), LAMBDA sid :
    IF ~sid.some THEN Outcome(Response(204, Nothing, ""), {"logout"})
    ELSE
  Let(sid_hash(sid.v), LAMBDA hash :
  Let(authenticate_session(sessions, hash), LAMBDA s :
  Let([Response(204, Nothing, "") EXCEPT !.set_cookie = Some("s=; Max-Age=0; Path=/")],
      LAMBDA res :
    IF ~s.some THEN Outcome(bad_req("logout with incorrect csrf token"), {"logout"})
    ELSE IF ~csrf_matches(r.body.fields.csrf, s.v.csrf)
      THEN Outcome(bad_req("logout with incorrect csrf token"), {"logout"})
    ELSE IF ~revoke_ok
      THEN Outcome(internal_server_err("revoke_session failed"), {"logout"})
    ELSE [Outcome(res, {"logout"}) EXCEPT !.sessions = revoke_session(sessions, hash)]))))

\* revoke_ok: whether the database's revoke_session succeeds.
logout(r, revoke_ok) ==
  IF ~from_slice(r.body, {"csrf"})
    THEN Outcome(bad_req("invalid logout request"), {"logout"})
  ELSE
  Let(extract_sid(r), LAMBDA sid :
    IF ~sid.some THEN Outcome(Response(204, Nothing, ""), {"logout"})
    ELSE
  Let(sid_hash(sid.v), LAMBDA hash :
  Let(authenticate_session(sessions, hash), LAMBDA s :
  Let([Response(204, Nothing, "") EXCEPT !.set_cookie = Some("s=; Max-Age=0; Path=/")],
      LAMBDA res :
    IF ~s.some THEN Outcome(res, {"logout"})
    ELSE IF ~csrf_matches(r.body.fields.csrf, s.v.csrf)
      THEN Outcome(bad_req("logout with incorrect csrf token"), {"logout"})
    ELSE IF ~revoke_ok
      THEN Outcome(internal_server_err("revoke_session failed"), {"logout"})
    ELSE [Outcome(res, {"logout"}) EXCEPT !.sessions = revoke_session(sessions, hash)]))))


(***************************************************************************)
(* The database's cameras and recordings (db; its code is not in web.rs).  *)
(***************************************************************************)
TEST_STREAM_ID == 1

\* db.get_camera(uuid): Some(camera) or Nothing.
get_camera(uuid) ==
  IF Some(uuid) = uuid_parse_str(TEST_CAMERA_UUID)
    THEN Some([streams |-> [MAIN |-> Some(TEST_STREAM_ID), SUB |-> Nothing]])
    ELSE Nothing

Min(a, b) == IF a < b THEN a ELSE b

Max(a, b) == IF a > b THEN a ELSE b

\* The ids of lo..(hi - 1) in ascending order.
RECURSIVE id_range(_, _)
id_range(lo, hi) == IF lo >= hi THEN <<>> ELSE <<lo>> \o id_range(lo + 1, hi)

\* db.list_recordings_by_id(stream_id, lo..hi, f) visits the stored
\* recordings with lo <= id < hi in ascending id order: their ids.
list_recordings_by_id(lo, hi) ==
  SelectSeq(id_range(Max(lo, 0),
                     Min(hi, IF DOMAIN recordings = {} THEN 0
                             ELSE 1 + CHOOSE m \in DOMAIN recordings :
                                        \A i \in DOMAIN recordings : i <= m)),
            LAMBDA i : i \in DOMAIN recordings)

\* url::form_urlencoded::parse on a query without escapes: the (key, value)
\* pairs, split at & and at the first =.
form_urlencoded_parse(q) ==
  Let(SelectSeq(split(q, "&"), LAMBDA piece : piece # ""), LAMBDA pieces :
    [i \in 1..Len(pieces) |->
       Let(find(pieces[i], "="), LAMBDA eq :
         IF eq = 0 THEN <<pieces[i], "">>
         ELSE <<SubSeq(pieces[i], 1, eq - 1), skip(pieces[i], eq)>>)])

query_pairs(r) == IF r.query.some THEN form_urlencoded_parse(r.query.v) ELSE <<>>

(***************************************************************************)
(* ServiceInner::stream_view_mp4 (web.rs 396-508).                         *)
(***************************************************************************)
\* The state of the loop over the rows of one s= selection (web.rs 436-474):
\* prev, cur_off, the rows visited with the cur_off each was visited at, the
\* ranges appended to the builder, and the error the callback bailed with.
RowsStart ==
  [prev |-> Nothing, cur_off |-> 0, visited |-> <<>>, offsets |-> <<>>,
   appended |-> <<>>, err |-> Nothing]

\* The callback without its check for missing recordings.
view_row_unchecked(sel, st, id) ==
  Let(recordings[id].duration_90k, LAMBDA d :
    IF sel.open_id.some /\ recordings[id].open_id # sel.open_id.v
      THEN [st EXCEPT !.visited = Append(@, id), !.offsets = Append(@, st.cur_off),
                      !.err = Some("recording has another open id")]
    ELSE
       [[st EXCEPT !.visited = Append(@, id), !.offsets = Append(@, st.cur_off)]
          EXCEPT !.prev = Some(id),
                 !.appended =
                   IF /\ sel.start_time <= st.cur_off + d
                      /\ (sel.end_time.some => st.cur_off < sel.end_time.v)
                     THEN Append(@, [id |-> id,
                                     start |-> Max(0, sel.start_time - st.cur_off),
                                     end |-> IF sel.end_time.some
                                               THEN Min(d, sel.end_time.v - st.cur_off)
                                               ELSE d])
                     ELSE @,
                 !.cur_off = @ + d])

\* The callback without its comparison of the open ids.
view_row_any_open(sel, st, id) ==
  Let(recordings[id].duration_90k, LAMBDA d :
    IF FALSE
      THEN [st EXCEPT !.visited = Append(@, id), !.offsets = Append(@, st.cur_off),
                      !.err = Some("recording has another open id")]
    ELSE IF \/ ~st.prev.some /\ id # sel.ids_start
            \/ st.prev.some /\ id # st.prev.v + 1
      THEN [st EXCEPT !.visited = Append(@, id), !.offsets = Append(@, st.cur_off),
                      !.err = Some("no such recording")]
    ELSE
       [[st EXCEPT !.visited = Append(@, id), !.offsets = Append(@, st.cur_off)]
          EXCEPT !.prev = Some(id),
                 !.appended =
                   IF /\ sel.start_time <= st.cur_off + d
                      /\ (sel.end_time.some => st.cur_off < sel.end_time.v)
                     THEN Append(@, [id |-> id,
                                     start |-> Max(0, sel.start_time - st.cur_off),
                                     end |-> IF sel.end_time.some
                                               THEN Min(d, sel.end_time.v - st.cur_off)
                                               ELSE d])
                     ELSE @,
                 !.cur_off = @ + d])

\* The callback appending each recording up to its end.
view_row_untrimmed(sel, st, id) ==
  Let(recordings[id].duration_90k, LAMBDA d :
    IF sel.open_id.some /\ recordings[id].open_id # sel.open_id.v
      THEN [st EXCEPT !.visited = Append(@, id), !.offsets = Append(@, st.cur_off),
                      !.err = Some("recording has another open id")]
    ELSE IF \/ ~st.prev.some /\ id # sel.ids_start
            \/ st.prev.some /\ id # st.prev.v + 1
      THEN [st EXCEPT !.visited = Append(@, id), !.offsets = Append(@, st.cur_off),
                      !.err = Some("no such recording")]
    ELSE
       [[st EXCEPT !.visited = Append(@, id), !.offsets = Append(@, st.cur_off)]
          EXCEPT !.prev = Some(id),
                 !.appended =
                   IF /\ sel.start_time <= st.cur_off + d
                      /\ (sel.end_time.some => st.cur_off < sel.end_time.v)
                     THEN Append(@, [id |-> id,
                                     start |-> Max(0, sel.start_time - st.cur_off),
                                     end |-> d])
                     ELSE @,
                 !.cur_off = @ + d])

\* The callback of list_recordings_by_id on row id (web.rs 438-474).
view_row(sel, st, id) ==
  Let(recordings[id].duration_90k, LAMBDA d :
    IF sel.open_id.some /\ recordings[id].open_id # sel.open_id.v
      THEN [st EXCEPT !.visited = Append(@, id), !.offsets = Append(@, st.cur_off),
                      !.err = Some("recording has another open id")]
    ELSE IF \/ ~st.prev.some /\ id # sel.ids_start
            \/ st.prev.some /\ id # st.prev.v + 1
      THEN [st EXCEPT !.visited = Append(@, id), !.offsets = Append(@, st.cur_off),
                      !.err = Some("no such recording")]
    ELSE
       [[st EXCEPT !.visited = Append(@, id), !.offsets = Append(@, st.cur_off)]
          EXCEPT !.prev = Some(id),
                 !.appended =
                   IF /\ sel.start_time <= st.cur_off + d
                      /\ (sel.end_time.some => st.cur_off < sel.end_time.v)
                     THEN Append(@, [id |-> id,
                                     start |-> Max(0, sel.start_time - st.cur_off),
                                     end |-> IF sel.end_time.some
                                               THEN Min(d, sel.end_time.v - st.cur_off)
                                               ELSE d])
                     ELSE @,
                 !.cur_off = @ + d])

\* The loop: the callback on each row in turn, stopping at its first error.
RECURSIVE view_rows(_, _, _)
view_rows(sel, st, ids) ==
  IF Len(ids) = 0 \/ st.err.some THEN st
  ELSE view_rows(sel, view_row(sel, st, Head(ids)), Tail(ids))

\* A query with an s= value that makes Segments::parse panic has no
\* response: the task serving the connection dies.
Aborted == Response(0, Nothing, "connection aborted")

\* view_segments without the comparison of the end time with the recordings.
view_segments_unbounded(value, overflow_checks) ==
  Let(Segments_parse(value, overflow_checks), LAMBDA sel :
    IF sel.kind = "Panic" THEN [sel |-> sel, rows |-> RowsStart, err |-> Some(Aborted)]
    ELSE IF sel.kind = "Err"
      THEN [sel |-> sel, rows |-> RowsStart,
            err |-> Some(plain_response(400, "invalid s parameter"))]
    ELSE
  Let(view_rows(sel, RowsStart, list_recordings_by_id(sel.ids_start, sel.ids_end)),
      LAMBDA st :
    [sel |-> sel,
     rows |-> st,
     err |-> IF st.err.some THEN Some(internal_server_err(st.err.v))
             ELSE IF st.prev.some /\ sel.ids_end # st.prev.v + 1
               THEN Some(not_found("no such recording"))
             ELSE IF ~st.prev.some THEN Some(not_found("no such recording"))
             ELSE Nothing]))

\* One s= parameter (web.rs 417-496): [err: Option of the error response,
\* rows: the loop's final state].
view_segments(value, overflow_checks) ==
  Let(Segments_parse(value, overflow_checks), LAMBDA sel :
    IF sel.kind = "Panic" THEN [sel |-> sel, rows |-> RowsStart, err |-> Some(Aborted)]
    ELSE IF sel.kind = "Err"
      THEN [sel |-> sel, rows |-> RowsStart,
            err |-> Some(plain_response(400, "invalid s parameter"))]
    ELSE
  Let(view_rows(sel, RowsStart, list_recordings_by_id(sel.ids_start, sel.ids_end)),
      LAMBDA st :
    [sel |-> sel,
     rows |-> st,
     err |-> IF st.err.some THEN Some(internal_server_err(st.err.v))
             ELSE IF st.prev.some /\ sel.ids_end # st.prev.v + 1
               THEN Some(not_found("no such recording"))
             ELSE IF ~st.prev.some THEN Some(not_found("no such recording"))
             ELSE IF sel.end_time.some /\ sel.end_time.v > st.cur_off
               THEN Some(plain_response(400, "end time is beyond specified recordings"))
             ELSE Nothing]))

\* view_query that passes over the keys it does not know.
RECURSIVE view_query_lenient(_, _, _)
view_query_lenient(pairs, acc, overflow_checks) ==
  IF Len(pairs) = 0 \/ acc.err.some THEN acc
  ELSE IF Head(pairs)[1] = "s"
    THEN Let(view_segments(Head(pairs)[2], overflow_checks), LAMBDA seg :
           view_query_lenient(Tail(pairs),
                              [err |-> seg.err,
                               assembly |-> Append(acc.assembly, seg),
                               segments |-> acc.segments \o seg.rows.appended,
                               subtitles |-> acc.subtitles],
                              overflow_checks))
  ELSE IF Head(pairs)[1] = "ts"
    THEN view_query_lenient(Tail(pairs),
                            [acc EXCEPT !.subtitles = (Head(pairs)[2] = "true")],
                            overflow_checks)
  ELSE view_query_lenient(Tail(pairs), acc, overflow_checks)

\* The loop over the query's pairs (web.rs 413-501): [err, assembly: what
\* each s= parameter did, in order, segments: the builder's segments].
RECURSIVE view_query(_, _, _)
view_query(pairs, acc, overflow_checks) ==
  IF Len(pairs) = 0 \/ acc.err.some THEN acc
  ELSE IF Head(pairs)[1] = "s"
    THEN Let(view_segments(Head(pairs)[2], overflow_checks), LAMBDA seg :
           view_query(Tail(pairs),
                      [err |-> seg.err,
                       assembly |-> Append(acc.assembly, seg),
                       segments |-> acc.segments \o seg.rows.appended,
                       subtitles |-> acc.subtitles],
                      overflow_checks))
  ELSE IF Head(pairs)[1] = "ts"
    THEN view_query(Tail(pairs), [acc EXCEPT !.subtitles = (Head(pairs)[2] = "true")],
                    overflow_checks)
  ELSE [acc EXCEPT !.err = Some(bad_req("parameter not understood"))]

\* mp4::FileBuilder::build (mp4.rs; its code is not in web.rs): a file
\* without segments is an InvalidArgument error.
FileBuilder_build(segments) ==
  IF Len(segments) = 0 THEN Some("InvalidArgument") ELSE Nothing

stream_view_mp4(r, caller, uuid, stream_type, mp4_type, debug, overflow_checks) ==
  IF ~caller.permissions.view_video
    THEN Outcome(plain_response(401, "view_video required"), {"stream_view_mp4"})
  ELSE IF ~get_camera(uuid).some
    THEN Outcome(plain_response(404, "no such camera"), {"stream_view_mp4"})
  ELSE IF ~get_camera(uuid).v.streams[stream_type].some
    THEN Outcome(plain_response(404, "no such stream"), {"stream_view_mp4"})
  ELSE
  Let(view_query(query_pairs(r),
                 [err |-> Nothing, assembly |-> <<>>, segments |-> <<>>, subtitles |-> FALSE],
                 overflow_checks), LAMBDA q :
    IF q.err.some
      THEN [Outcome(q.err.v, {"stream_view_mp4"}) EXCEPT !.assembly = q.assembly]
    ELSE
  Let(IF FileBuilder_build(q.segments).some
        THEN from_base_error(FileBuilder_build(q.segments).v)
      ELSE IF debug THEN plain_response(200, "debug dump")
      ELSE Response(200,
                    Some(IF mp4_type = "Normal" THEN "video/mp4" ELSE "video/iso.segment"),
                    [segments |-> q.segments, subtitles |-> q.subtitles]), LAMBDA response :
    [Outcome(response, {"stream_view_mp4"}) EXCEPT !.assembly = q.assembly, !.built = TRUE]))


(***************************************************************************)
(* The other handlers of ServiceInner.                                     *)
(***************************************************************************)
\* The value of the last pair with the given key, or Nothing.
RECURSIVE last_value(_, _)
last_value(pairs, key) ==
  IF Len(pairs) = 0 THEN Nothing
  ELSE IF pairs[Len(pairs)][1] = key THEN Some(pairs[Len(pairs)][2])
  ELSE last_value(SubSeq(pairs, 1, Len(pairs) - 1), key)

\* serve_json
serve_json(out) == Response(200, Some("application/json"), out)

\* top_level (web.rs 280-309)
top_level(r, caller) ==
  IF /\ last_value(query_pairs(r), "cameraConfigs") = Some("true")
     /\ ~caller.permissions.read_camera_configs
    THEN Outcome(plain_response(401, "read_camera_configs required"), {"top_level"})
  ELSE Outcome(serve_json([session |->
                             IF caller.session.some
                               THEN Some([username |-> caller.session.v.username,
                                          csrf |-> SessionHash_encode_base64(
                                                     caller.session.v.csrf)])
                               ELSE Nothing]),
               {"top_level"})

\* camera (web.rs 311-316)
camera(r, uuid) ==
  IF ~get_camera(uuid).some THEN Outcome(not_found("no such camera"), {"camera"})
  ELSE Outcome(serve_json("camera"), {"camera"})

\* A 90 kHz time or duration in a query value: a run of digits that fits i64.
time_parses(value) == Len(value) > 0 /\ all_in(value, Digits) /\ fits(value, I64_MAX_TEXT)

\* Some pair with the given key has a value that does not parse.
bad_time(pairs, key) ==
  \E i \in 1..Len(pairs) : pairs[i][1] = key /\ ~time_parses(pairs[i][2])

\* stream_recordings (web.rs 318-375)
stream_recordings(r, uuid, type_) ==
  Let(query_pairs(r), LAMBDA pairs :
    IF bad_time(pairs, "startTime90k") \/ bad_time(pairs, "endTime90k")
         \/ bad_time(pairs, "split90k")
      THEN Outcome(bad_req("unparseable parameter"), {"stream_recordings"})
    ELSE IF ~get_camera(uuid).some
      THEN Outcome(plain_response(404, "no such camera"), {"stream_recordings"})
    ELSE IF ~get_camera(uuid).v.streams[type_].some
      THEN Outcome(plain_response(404, "no such stream"), {"stream_recordings"})
    ELSE Outcome(serve_json("recordings"), {"stream_recordings"}))

\* The sha1 of the one video sample entry the database holds.
VIDEO_SAMPLE_ENTRY_SHA1 == dehex("07cec464126825088ea86a07eddd6a00afa71559")

\* init_segment (web.rs 377-394)
init_segment(sha1, debug) ==
  IF Some(sha1) # VIDEO_SAMPLE_ENTRY_SHA1
    THEN Outcome(not_found("no such init segment"), {"init_segment"})
  ELSE IF debug THEN Outcome(plain_response(200, "debug dump"), {"init_segment"})
  ELSE Outcome(Response(200, Some("video/mp4"), "init segment"), {"init_segment"})

\* request (web.rs 533-551)
request(r) == Outcome(plain_response(200, [secure |-> is_secure(r)]), {"request"})

\* ServiceInner.ui_files: the paths of the UI directory's files.
ui_files == {"/"}

\* static_file (web.rs 510-519)
static_file(r) ==
  IF r.path \notin ui_files THEN Outcome(not_found("no such static file"), {"static_file"})
  ELSE Outcome(Response(200, Some("text/html"), "file"), {"static_file"})

\* post_signals (web.rs 638-659)
post_signals(r, caller) ==
  IF ~caller.permissions.update_signals
    THEN Outcome(plain_response(401, "update_signals required"), {"post_signals"})
  ELSE IF ~from_slice(r.body, {"signalIds", "states"})
    THEN Outcome(bad_req("invalid signals request"), {"post_signals"})
  ELSE IF /\ "endBase" \in DOMAIN r.body.fields
          /\ r.body.fields.endBase = "epoch"
          /\ "relEndTime90k" \notin DOMAIN r.body.fields
    THEN Outcome(bad_req("must specify rel_end_time_90k when end_base is epoch"),
                 {"post_signals"})
  ELSE Outcome(serve_json("signals updated"), {"post_signals"})

\* get_signals (web.rs 661-687)
get_signals(r) ==
  Let(query_pairs(r), LAMBDA pairs :
    IF bad_time(pairs, "startTime90k") \/ bad_time(pairs, "endTime90k")
      THEN Outcome(bad_req("unparseable parameter"), {"get_signals"})
    ELSE Outcome(serve_json("signals"), {"get_signals"}))

\* Service::signals (web.rs 952-965)
signals(r, caller) ==
  IF r.method = "POST"
    THEN IF with_json_body(r).some THEN Outcome(with_json_body(r).v, {"signals"})
         ELSE [post_signals(r, caller) EXCEPT !.invoked = @ \cup {"signals"}]
  ELSE IF r.method \in {"GET", "HEAD"}
    THEN [get_signals(r) EXCEPT !.invoked = @ \cup {"signals"}]
  ELSE Outcome(plain_response(405, "POST, GET, or HEAD expected"), {"signals"})


(***************************************************************************)
(* Service::stream_live_m4s (web.rs 865-950) and the live channel.         *)
(*   live[i]: [queue: the notifications sent and not yet received,         *)
(*             body: "alive", "failed" (a part's build failed, which ends  *)
(*                   the response) or "dropped" (the client went away);    *)
(*                   the receiver lives exactly as long as the body,       *)
(*             open_id, accepted: the notifications the callback accepted, *)
(*             parts: the multipart parts emitted]                         *)
(***************************************************************************)
\* i32/u32::to_string
RECURSIVE to_string(_)
to_string(n) ==
  IF n < 10 THEN Ch("0123456789", n + 1)
  ELSE to_string(n \div 10) \o Ch("0123456789", (n % 10) + 1)

\* stream_live_m4s that looks the camera up before the open id.
stream_live_m4s_camera_first(r, caller, uuid, stream_type) ==
  IF ~caller.permissions.view_video
    THEN Outcome(plain_response(401, "view_video required"), {"stream_live_m4s"})
  ELSE IF ~get_camera(uuid).some
    THEN Outcome(plain_response(404, "no such camera"), {"stream_live_m4s"})
  ELSE IF ~get_camera(uuid).v.streams[stream_type].some
    THEN Outcome(plain_response(404, "no such stream"), {"stream_live_m4s"})
  ELSE IF ~open.some
    THEN Outcome(plain_response(412, "database is read-only; there are no live streams"),
                 {"stream_live_m4s"})
  ELSE [Outcome([Response(200, Some("multipart/mixed; boundary=B"),
                          [stream |-> Len(live) + 1])
                   EXCEPT !.x_open_id = Some(to_string(open.v))],
                {"stream_live_m4s"})
          EXCEPT !.subs = subs \cup {Len(live) + 1},
                 !.live = Append(live, [queue |-> <<>>, body |-> "alive", open_id |-> open.v,
                                        accepted |-> <<>>, parts |-> <<>>])]

\* stream_live_m4s subscribing before it has resolved the stream.
stream_live_m4s_eager(r, caller, uuid, stream_type) ==
  IF ~caller.permissions.view_video
    THEN Outcome(plain_response(401, "view_video required"), {"stream_live_m4s"})
  ELSE IF ~open.some
    THEN Outcome(plain_response(412, "database is read-only; there are no live streams"),
                 {"stream_live_m4s"})
  ELSE IF ~get_camera(uuid).some
    THEN Outcome(plain_response(404, "no such camera"), {"stream_live_m4s"})
  ELSE IF ~get_camera(uuid).v.streams[stream_type].some
    THEN [Outcome(plain_response(404, "no such stream"), {"stream_live_m4s"})
            EXCEPT !.subs = subs \cup {Len(live) + 1},
                   !.live = Append(live, [queue |-> <<>>, body |-> "dropped", open_id |-> open.v,
                                          accepted |-> <<>>, parts |-> <<>>])]
  ELSE [Outcome([Response(200, Some("multipart/mixed; boundary=B"),
                          [stream |-> Len(live) + 1])
                   EXCEPT !.x_open_id = Some(to_string(open.v))],
                {"stream_live_m4s"})
          EXCEPT !.subs = subs \cup {Len(live) + 1},
                 !.live = Append(live, [queue |-> <<>>, body |-> "alive", open_id |-> open.v,
                                        accepted |-> <<>>, parts |-> <<>>])]

\* stream_live_m4s reading the open id before it checks the permission.
stream_live_m4s_open_first(r, caller, uuid, stream_type) ==
  IF ~open.some
    THEN Outcome(plain_response(412, "database is read-only; there are no live streams"),
                 {"stream_live_m4s"})
  ELSE IF ~caller.permissions.view_video
    THEN Outcome(plain_response(401, "view_video required"), {"stream_live_m4s"})
  ELSE IF ~get_camera(uuid).some
    THEN Outcome(plain_response(404, "no such camera"), {"stream_live_m4s"})
  ELSE IF ~get_camera(uuid).v.streams[stream_type].some
    THEN Outcome(plain_response(404, "no such stream"), {"stream_live_m4s"})
  ELSE [Outcome([Response(200, Some("multipart/mixed; boundary=B"),
                          [stream |-> Len(live) + 1])
                   EXCEPT !.x_open_id = Some(to_string(open.v))],
                {"stream_live_m4s"})
          EXCEPT !.subs = subs \cup {Len(live) + 1},
                 !.live = Append(live, [queue |-> <<>>, body |-> "alive", open_id |-> open.v,
                                        accepted |-> <<>>, parts |-> <<>>])]

stream_live_m4s(r, caller, uuid, stream_type) ==
  IF ~caller.permissions.view_video
    THEN Outcome(plain_response(401, "view_video required"), {"stream_live_m4s"})
  ELSE IF ~open.some
    THEN Outcome(plain_response(412, "database is read-only; there are no live streams"),
                 {"stream_live_m4s"})
  ELSE IF ~get_camera(uuid).some
    THEN Outcome(plain_response(404, "no such camera"), {"stream_live_m4s"})
  ELSE IF ~get_camera(uuid).v.streams[stream_type].some
    THEN Outcome(plain_response(404, "no such stream"), {"stream_live_m4s"})
  ELSE [Outcome([Response(200, Some("multipart/mixed; boundary=B"),
                          [stream |-> Len(live) + 1])
                   EXCEPT !.x_open_id = Some(to_string(open.v))],
                {"stream_live_m4s"})
          EXCEPT !.subs = subs \cup {Len(live) + 1},
                 !.live = Append(live, [queue |-> <<>>, body |-> "alive", open_id |-> open.v,
                                        accepted |-> <<>>, parts |-> <<>>])]

\* A callback that ignores the result of the send.
live_callback_deaf(entry, l) ==
  IF entry.body = "alive"
    THEN [alive |-> TRUE,
          entry |-> [entry EXCEPT !.queue = Append(@, l), !.accepted = Append(@, l)]]
    ELSE [alive |-> TRUE, entry |-> entry]

\* A callback over a channel that holds one notification: it refuses a
\* second one.
live_callback_bounded(entry, l) ==
  IF entry.body = "alive" /\ Len(entry.queue) = 0
    THEN [alive |-> TRUE,
          entry |-> [entry EXCEPT !.queue = Append(@, l), !.accepted = Append(@, l)]]
    ELSE [alive |-> entry.body = "alive", entry |-> entry]

\* The subscriber callback (web.rs 888), sub_tx.unbounded_send(l).is_ok():
\* [alive: what it returns, entry: the channel after it].
live_callback(entry, l) ==
  IF entry.body = "alive"
    THEN [alive |-> TRUE,
          entry |-> [entry EXCEPT !.queue = Append(@, l), !.accepted = Append(@, l)]]
    ELSE [alive |-> FALSE, entry |-> entry]

\* The body's closure on one received notification (web.rs 893-939): the
\* part, or Nothing when the row is not found or the build fails.
live_part(l, build_ok) ==
  IF Len(list_recordings_by_id(l.recording, l.recording + 1)) # 1 THEN Nothing
  ELSE IF ~build_ok THEN Nothing
  ELSE Some([recording |-> l.recording, start |-> l.start, end |-> l.end])

\* A body that takes the newest notification waiting rather than the oldest.
body_next_newest(entry, build_ok) ==
  Let(live_part(entry.queue[Len(entry.queue)], build_ok), LAMBDA part :
    IF part.some
      THEN [entry EXCEPT !.queue = SubSeq(@, 1, Len(@) - 1), !.parts = Append(@, part.v)]
      ELSE [entry EXCEPT !.queue = SubSeq(@, 1, Len(@) - 1), !.body = "failed"])

\* A body that emits only the last notification waiting and discards the
\* ones before it.
body_next_skipping(entry, build_ok) ==
  Let(live_part(Head(entry.queue), build_ok), LAMBDA part :
    IF Len(entry.queue) > 1
      THEN [entry EXCEPT !.queue = Tail(@)]
    ELSE IF part.some
      THEN [entry EXCEPT !.queue = Tail(@), !.parts = Append(@, part.v)]
      ELSE [entry EXCEPT !.queue = Tail(@), !.body = "failed"])

\* The body stream polled once with a notification waiting (web.rs 892-944).
body_next(entry, build_ok) ==
  Let(live_part(Head(entry.queue), build_ok), LAMBDA part :
    IF part.some
      THEN [entry EXCEPT !.queue = Tail(@), !.parts = Append(@, part.v)]
      ELSE [entry EXCEPT !.queue = Tail(@), !.body = "failed"])

(***************************************************************************)
(* Service::serve (web.rs 967-1024).                                       *)
(***************************************************************************)
wrap(is_private, out) ==
  IF is_private THEN [out EXCEPT !.resp.cache_control = Some("private")] ELSE out

\* env: [revoke_ok, overflow_checks], what the request's handling meets
\* outside the request: whether revoke_session succeeds, and whether the
\* build checks integer overflow.
serve(r, env) ==
  Let(Routes[r.path], LAMBDA p :
  Let(p.variant \in {"NotFound", "Request", "Login", "Logout", "Static"},
      LAMBDA always_allow_unauthenticated :
  Let(authenticate(r, always_allow_unauthenticated), LAMBDA caller :
    IF ~caller.ok THEN Outcome(from_base_error("Unauthenticated"), {})
    ELSE CASE p.variant = "InitSegment" -> wrap(TRUE, init_segment(p.sha1.v, p.debug))
           [] p.variant = "TopLevel" -> wrap(TRUE, top_level(r, caller))
           [] p.variant = "Request" -> wrap(TRUE, request(r))
           [] p.variant = "Camera" -> wrap(TRUE, camera(r, p.uuid.v))
           [] p.variant = "StreamRecordings" ->
                wrap(TRUE, stream_recordings(r, p.uuid.v, p.type_.v))
           [] p.variant = "StreamViewMp4" ->
                wrap(TRUE, stream_view_mp4(r, caller, p.uuid.v, p.type_.v, "Normal",
                                           p.debug, env.overflow_checks))
           [] p.variant = "StreamViewMp4Segment" ->
                wrap(TRUE, stream_view_mp4(r, caller, p.uuid.v, p.type_.v, "MediaSegment",
                                           p.debug, env.overflow_checks))
           [] p.variant = "StreamLiveMp4Segments" ->
                wrap(TRUE, stream_live_m4s(r, caller, p.uuid.v, p.type_.v))
           [] p.variant = "NotFound" ->
                wrap(TRUE, Outcome(not_found("path not understood"), {}))
           [] p.variant = "Login" ->
                wrap(TRUE, IF with_json_body(r).some THEN Outcome(with_json_body(r).v, {})
                           ELSE login(r))
           [] p.variant = "Logout" ->
                wrap(TRUE, IF with_json_body(r).some THEN Outcome(with_json_body(r).v, {})
                           ELSE logout(r, env.revoke_ok))
           [] p.variant = "Signals" -> wrap(TRUE, signals(r, caller))
           [] p.variant = "Static" -> wrap(FALSE, static_file(r)))))


(***************************************************************************)
(* The requests the clients send.                                          *)
(***************************************************************************)
Request(method, path, query, cookie, content_type, host, x_forwarded_proto, body) ==
  [method |-> method, path |-> path, query |-> query, cookie |-> cookie,
   content_type |-> content_type, host |-> host,
   x_forwarded_proto |-> x_forwarded_proto, body |-> body]

NoBody == [kind |-> "text"]

Json(fields) == [kind |-> "json", fields |-> fields]

Get(path, query, cookie) ==
  Request("GET", path, query, cookie, Nothing, Some("nvr:8080"), Nothing, NoBody)

Post(path, cookie, body) ==
  Request("POST", path, Nothing, cookie, Some("application/json"), Some("nvr:8080"),
          Nothing, body)

\* What a request's handling meets outside the request.
Env(revoke_ok, overflow_checks) ==
  [revoke_ok |-> revoke_ok, overflow_checks |-> overflow_checks]

Input(r, env) == [r |-> r, env |-> env]

Usual(r) == Input(r, Env(TRUE, TRUE))

\* The csrf values of logout bodies: the tokens of the sessions, a token cut
\* short, and the empty string.
Csrfs ==
  {SessionHash_encode_base64(CsrfToken(k)) : k \in 0..(MaxSessions - 1)}
    \cup {SubSeq(SessionHash_encode_base64(CsrfToken(0)), 1, 31), ""}

\* GET /api/ with every Cookie header, and each other protected route
\* without a cookie and with the first session's.
ProtectedGets ==
  {Get("/api/", Nothing, c) : c \in Cookies}
    \cup {Get(path, Nothing, c) : path \in ProtectedPaths, c \in {Nothing, Some(CookieOf(0))}}
    \cup {Get("/api/", Some("cameraConfigs=true"), c) : c \in {Nothing, Some(CookieOf(0))}}
    \cup {Get(CAMERA \o "/main/view.m4s", Some("s=1-2"), c) : c \in {Nothing, Some(CookieOf(0))}}
    \cup {Request(m, "/api/signals", Nothing, c, Nothing, Some("nvr:8080"), Nothing, NoBody) :
            m \in {"PUT", "DELETE"}, c \in {Nothing, Some(CookieOf(0))}}

OpenGets ==
  {Get(path, Nothing, c) : path \in OpenPaths \ {"/api/login", "/api/logout"},
                           c \in {Nothing, Some(CookieOf(0))}}

GoodLogin == Post("/api/login", Nothing, Json([username |-> "slamb", password |-> "hunter2"]))

Logins ==
  {GoodLogin,
   Post("/api/login", Nothing, Json([username |-> "slamb", password |-> "asdf"])),
   Post("/api/login", Nothing, Json([username |-> "nobody", password |-> "hunter2"])),
   Post("/api/login", Nothing, NoBody),
   Get("/api/login", Nothing, Nothing),
   [GoodLogin EXCEPT !.host = Nothing],
   [GoodLogin EXCEPT !.content_type = Nothing],
   [GoodLogin EXCEPT !.body = [kind |-> "io_error"]]}
    \cup {[GoodLogin EXCEPT !.method = m] : m \in {"GET", "PUT", "DELETE"}}

\* Logouts with a session's cookie, an unknown id's, an undecodable one or
\* none.
LogoutCookies ==
  {Nothing, Some("s=abc")} \cup {Some(CookieOf(k)) : k \in 0..MaxSessions}

Logouts ==
  {Post("/api/logout", c, Json([csrf |-> t])) : c \in LogoutCookies, t \in Csrfs}
    \cup {Post("/api/logout", Some(CookieOf(0)), NoBody),
          Get("/api/logout", Nothing, Some(CookieOf(0)))}
    \cup {[Post("/api/logout", Some(CookieOf(0)),
                Json([csrf |-> SessionHash_encode_base64(CsrfToken(0))]))
             EXCEPT !.method = m] : m \in {"GET", "PUT", "DELETE"}}

\* The requests of Spec; a logout also with a failing revoke_session.
Requests ==
  {Usual(r) : r \in ProtectedGets \cup OpenGets \cup Logins \cup Logouts}
    \cup {Input(r, Env(FALSE, TRUE)) : r \in Logouts}

(***************************************************************************)
(* The initial states and the actions.                                     *)
(***************************************************************************)
\* A recording row of the stream.
Row(duration_90k, open_id) == [duration_90k |-> duration_90k, open_id |-> open_id]

NoExchange ==
  /\ req = Get("/", Nothing, Nothing)
  /\ resp = Response(0, Nothing, "")
  /\ invoked = {}
  /\ assembly = <<>>
  /\ built = FALSE

NoLive ==
  /\ subs = {}
  /\ flushed = 0
  /\ live = <<>>

NoCall ==
  /\ input = [fn |-> "none"]
  /\ output = [kind |-> "none"]

\* A task that runs no future.
Idle == [code |-> <<>>, pc |-> 0]

NoTasks ==
  /\ lock = 0
  /\ tasks = [t \in 1..MaxTasks |-> Idle]

\* The anonymous permissions a server is configured with: none, or a set
\* that differs from the user's.
AnonymousPermissions ==
  {Nothing, Some(Permissions(FALSE, TRUE, TRUE)), Some(Permissions(TRUE, FALSE, FALSE))}

Init ==
  /\ allow_unauthenticated_permissions \in AnonymousPermissions
  /\ trust_forward_hdrs = FALSE
  /\ sessions = {}
  /\ recordings = (1 :> Row(2, 1)) @@ (2 :> Row(3, 1))
  /\ open = Nothing
  /\ NoLive
  /\ NoTasks
  /\ NoExchange
  /\ issued = {}
  /\ logged_out = {}
  /\ NoCall

\* What tests::SessionCookie keeps of a Set-Cookie header: the text before
\* the first "; ".
cookie_of(set_cookie) == SubSeq(set_cookie, 1, find(set_cookie, ";") - 1)

\* The logout request r carries the CSRF token of its cookie's session.
csrf_valid(r) ==
  /\ r.body.kind = "json"
  /\ "csrf" \in DOMAIN r.body.fields
  /\ extract_sid(r).some
  /\ \E s \in sessions : /\ s.hash = sid_hash(extract_sid(r).v)
                         /\ r.body.fields.csrf = SessionHash_encode_base64(s.csrf)

\* Service::serve on one request.
Serve(inputs) ==
  \E i \in inputs : \E out \in {serve(i.r, i.env)} :
    /\ Cardinality(out.sessions) <= MaxSessions
    /\ Len(out.live) <= MaxLive
    /\ req' = i.r
    /\ resp' = out.resp
    /\ invoked' = out.invoked
    /\ assembly' = out.assembly
    /\ built' = out.built
    /\ sessions' = out.sessions
    /\ subs' = out.subs
    /\ live' = out.live
    /\ issued' = IF /\ i.r.path = "/api/login"
                    /\ out.resp.status = 204
                    /\ out.resp.set_cookie.some
                   THEN issued \cup {cookie_of(out.resp.set_cookie.v)}
                   ELSE issued
    /\ logged_out' = IF /\ i.r.path = "/api/logout"
                        /\ i.r.method = "POST"
                        /\ out.resp.status = 204
                        /\ csrf_valid(i.r)
                       THEN logged_out \cup {i.r.cookie.v}
                       ELSE logged_out
    /\ UNCHANGED <<config, sched, recordings, open, flushed, call>>

ServeRequest == Serve(Requests)

Next == ServeRequest

Spec == Init /\ [][Next]_vars


(***************************************************************************)
(* ViewSpec: view.mp4 and view.m4s requests against streams with different *)
(* stored recordings.                                                      *)
(***************************************************************************)
\* The recordings a stream can hold: a dense run of ids (the oldest are the
\* ones retention deletes), with recordings of zero duration and recordings
\* written under different open ids among them.
RecordingSets ==
  {<<>>,
   (1 :> Row(2, 1)) @@ (2 :> Row(3, 1)),
   (1 :> Row(2, 1)),
   (2 :> Row(3, 1)),
   (2 :> Row(3, 1)) @@ (3 :> Row(1, 1)),
   (1 :> Row(0, 1)) @@ (2 :> Row(3, 1)),
   (1 :> Row(2, 1)) @@ (2 :> Row(3, 2)),
   (1 :> Row(2, 1)) @@ (2 :> Row(0, 1)) @@ (3 :> Row(1, 2))}

\* The queries of the view requests.
ViewQueries ==
  {Nothing} \cup
  {Some(q) : q \in {"s=1", "s=2", "s=3", "s=1-2", "s=1-3", "s=2-3", "s=0-1",
                    "s=1-2.1-4", "s=1-2.0-5", "s=1-2.0-6", "s=1-2.2-", "s=1-2.3-4",
                    "s=1-2.5-5", "s=1-2@1", "s=1-2@2", "s=2@1", "s=1-3.2-3",
                    "s=1&s=2", "s=2&s=1", "s=1&ts=true", "ts=true", "s=1&junk=1",
                    "s=junk", "s=2-1", "s=1-2.4-3", "s=2147483647",
                    "junk=1", "junk=1&s=1", "s=3&junk=1", "ts=true&junk=1", "S=1",
                    "s=junk&junk=1", "ts=false", ""}}

ViewGets ==
  {Get(path, q, Nothing) :
     path \in {CAMERA \o "/main/view.mp4", CAMERA \o "/main/view.m4s"}, q \in ViewQueries}
    \cup {Get(path, Some("s=1-2"), Nothing) :
            path \in {CAMERA \o "/main/view.mp4.txt", CAMERA \o "/sub/view.mp4",
                      OTHER_CAMERA \o "/main/view.mp4"}}

\* The view requests, each by a build that checks integer overflow and by
\* one that does not.
ViewRequests == {Input(r, Env(TRUE, c)) : r \in ViewGets, c \in BOOLEAN}

ViewInit ==
  /\ allow_unauthenticated_permissions \in
       {Some(Permissions(TRUE, FALSE, FALSE)), Some(Permissions(FALSE, TRUE, TRUE))}
  /\ trust_forward_hdrs = FALSE
  /\ sessions = {}
  /\ recordings \in RecordingSets
  /\ open = Nothing
  /\ NoLive
  /\ NoTasks
  /\ NoExchange
  /\ issued = {}
  /\ logged_out = {}
  /\ NoCall

ServeView == Serve(ViewRequests)

ViewNext == ServeView

ViewSpec == ViewInit /\ [][ViewNext]_vars

(***************************************************************************)
(* LiveSpec: live.m4s responses, the stream's writer and the clients.      *)
(***************************************************************************)
LiveRequests ==
  {Usual(Get(path, Nothing, Nothing)) :
     path \in {CAMERA \o "/main/live.m4s", CAMERA \o "/sub/live.m4s",
               OTHER_CAMERA \o "/main/live.m4s"}}

LiveInit ==
  /\ allow_unauthenticated_permissions \in
       {Some(Permissions(TRUE, FALSE, FALSE)), Some(Permissions(FALSE, TRUE, TRUE))}
  /\ trust_forward_hdrs = FALSE
  /\ sessions = {}
  /\ recordings = (1 :> Row(2, 1)) @@ (2 :> Row(3, 2))
  /\ open \in {Nothing, Some(2), Some(12)}
  /\ NoLive
  /\ NoTasks
  /\ NoExchange
  /\ issued = {}
  /\ logged_out = {}
  /\ NoCall

ServeLive == Serve(LiveRequests)

\* The notification of the writer's n-th fragment: a part of the recording
\* it is writing, the stream's newest.
LiveSegment(n) == [recording |-> 2, start |-> n, end |-> n + 1]

\* The writer flushes a fragment: the database calls each subscriber's
\* callback with the notification and keeps the subscribers whose callback
\* returned true (db.send_live_segment; its code is not in web.rs).
WriterFlush ==
  /\ open.some
  /\ flushed < MaxFlush
  /\ \E called \in {[i \in subs |-> live_callback(live[i], LiveSegment(flushed))]} :
       /\ live' = [i \in 1..Len(live) |-> IF i \in subs THEN called[i].entry ELSE live[i]]
       /\ subs' = {i \in subs : called[i].alive}
  /\ flushed' = flushed + 1
  /\ UNCHANGED <<config, sched, sessions, recordings, open, exchange, history, call>>

\* hyper polls the body of a live response that has a notification waiting;
\* the part's build succeeds or fails.
BodyPoll ==
  \E i \in 1..Len(live) : \E build_ok \in BOOLEAN :
    /\ live[i].body = "alive"
    /\ Len(live[i].queue) > 0
    /\ live' = [live EXCEPT ![i] = body_next(live[i], build_ok)]
    /\ UNCHANGED <<config, sched, db, exchange, history, call>>

\* The client of a live response goes away: hyper drops the body, and the
\* receiver and what is queued in it with it.
BodyDrop ==
  \E i \in 1..Len(live) :
    /\ live[i].body = "alive"
    /\ live' = [live EXCEPT ![i].body = "dropped", ![i].queue = <<>>]
    /\ UNCHANGED <<config, sched, db, exchange, history, call>>

LiveNext == ServeLive \/ WriterFlush \/ BodyPoll \/ BodyDrop

LiveSpec == LiveInit /\ [][LiveNext]_vars


(***************************************************************************)
(* Properties of sessions and authentication (Spec).                       *)
(***************************************************************************)
\* The request's route needs an authenticated caller.
Protected(r) ==
  Routes[r.path].variant \notin {"NotFound", "Request", "Login", "Logout", "Static"}

\* A request has been served.
Served == resp.status # 0

\* The valid session, among the stored ones, of the request's cookie.
SessionOf(r, stored) ==
  IF extract_sid(r).some THEN authenticate_session(stored, sid_hash(extract_sid(r).v))
  ELSE Nothing

\* The request is a POST /api/logout whose body reaches the handler and
\* parses as a logout request.
LogoutPost(r) ==
  /\ r.path = "/api/logout"
  /\ ~with_json_body(r).some
  /\ from_slice(r.body, {"csrf"})

ClearingCookie == Some("s=; Max-Age=0; Path=/")

\* C1: a cookie a successful login returned, for which no CSRF-valid logout
\* has succeeded, authenticates a request to a protected route: the handler
\* runs, and GET /api/ answers 200 with the session's descriptor.  Once such
\* a logout has succeeded for the cookie, and no anonymous permissions are
\* configured, a request to a protected route with it is answered 401.
C1_SessionLifecycle ==
  (Served /\ Protected(req) /\ req.cookie.some) =>
    /\ req.cookie.v \in issued \ logged_out =>
         /\ invoked # {}
         /\ (req.path = "/api/" /\ req.query = Nothing) =>
              /\ resp.status = 200
              /\ resp.body.session.some
              /\ resp.body.session.v.username = "slamb"
    /\ (req.cookie.v \in logged_out /\ ~allow_unauthenticated_permissions.some) =>
         /\ resp.status = 401
         /\ invoked = {}

\* Two logins and a logout later, the logged-out cookie is refused.
C1_Witness ==
  /\ Cardinality(issued) = 2
  /\ req.cookie.some
  /\ req.cookie.v \in logged_out
  /\ issued \ logged_out # {}
  /\ Protected(req)
  /\ resp.status = 401

\* C2: a request to a protected route that carries no cookie of a valid
\* session, on a server without anonymous permissions, is answered 401 and
\* no handler is invoked for it.
C2_UnauthorizedBeforeHandler ==
  (/\ Served
   /\ Protected(req)
   /\ ~allow_unauthenticated_permissions.some
   /\ ~SessionOf(req, sessions).some) =>
    /\ resp.status = 401
    /\ invoked = {}

C2_Witness ==
  /\ Protected(req)
  /\ req.cookie = Nothing
  /\ req.path = CAMERA \o "/main/recordings"
  /\ resp.status = 401
  /\ invoked = {}
  /\ sessions # {}

\* C3: authenticate resolves the caller in the order (1) the valid session
\* of the cookie, with exactly its permissions and its descriptor, (2) the
\* anonymous permissions, without a descriptor, whatever unauth_path is,
\* (3) empty permissions without a descriptor when unauth_path, (4)
\* Unauthenticated; a descriptor is present iff (1) applied.
C3_AuthenticatePriority ==
  \A c \in Cookies : \A unauth_path \in BOOLEAN :
    \E caller \in {authenticate(Get("/api/", Nothing, c), unauth_path)} :
    \E valid \in {{s \in sessions :
                     /\ c.some
                     /\ Sids[c.v].some
                     /\ s.hash = sid_hash(Sids[c.v].v)
                     /\ ~s.revoked}} :
    \E anon \in {allow_unauthenticated_permissions} :
      /\ valid # {} =>
           \E s \in valid :
             caller = Caller(s.permissions, Some([username |-> s.username, csrf |-> s.csrf]))
      /\ (valid = {} /\ anon.some) => caller = Caller(anon.v, Nothing)
      /\ (valid = {} /\ ~anon.some /\ unauth_path) =>
           caller = Caller(Permissions_default, Nothing)
      /\ (valid = {} /\ ~anon.some /\ ~unauth_path) => caller = Unauthenticated
      /\ caller.ok => (caller.session.some <=> valid # {})

\* A session's caller lacks a permission the anonymous set has: GET
\* /api/?cameraConfigs=true is refused by the handler.
C3_Witness ==
  /\ allow_unauthenticated_permissions.some
  /\ allow_unauthenticated_permissions.v.read_camera_configs
  /\ req.query = Some("cameraConfigs=true")
  /\ SessionOf(req, sessions).some
  /\ resp.status = 401
  /\ invoked = {"top_level"}

\* C6: every response to a request for a protected route carries
\* Cache-Control: private, the response to a request that fails
\* authentication included.
C6_CacheControlPrivate ==
  (Served /\ Protected(req)) => resp.cache_control = Some("private")

\* C9: a POST /api/logout with the cookie of a valid session and a csrf
\* value that is not the session's token in base64 is answered 400 and
\* leaves the stored sessions as they were, the session still valid.
C9_LogoutCsrfMismatch ==
  [][(/\ LogoutPost(req')
      /\ SessionOf(req', sessions).some
      /\ req'.body.fields.csrf # SessionHash_encode_base64(SessionOf(req', sessions).v.csrf)) =>
       /\ resp'.status = 400
       /\ sessions' = sessions
       /\ SessionOf(req', sessions') = SessionOf(req', sessions)]_vars

C9_Witness ==
  /\ LogoutPost(req)
  /\ resp.status = 400
  /\ resp.body = "logout with incorrect csrf token"
  /\ SessionOf(req, sessions).some
  /\ Len(req.body.fields.csrf) = 31

\* The Cookie header has a cookie named s.
has_s_cookie(r) ==
  /\ r.cookie.some
  /\ \E c \in {split(r.cookie.v, ";")[k] : k \in 1..Len(split(r.cookie.v, ";"))} :
       starts_with(IF starts_with(c, " ") THEN skip(c, 1) ELSE c, "s=")

\* C10 as stated: a POST /api/logout with a well-formed body is answered 204,
\* with the clearing Set-Cookie when an s= cookie was present and without a
\* Set-Cookie when none was.
C10_AsStated ==
  (Served /\ LogoutPost(req)) =>
    /\ resp.status = 204
    /\ resp.set_cookie = IF has_s_cookie(req) THEN ClearingCookie ELSE Nothing

\* C10: a POST /api/logout with a well-formed body and an s= cookie that
\* decodes to a session id is answered 204 with the clearing Set-Cookie,
\* unless the csrf value does not match the valid session's token (400) or
\* revoking the session fails (500); without such a cookie (none, or one
\* that does not decode) it is answered 204 without a Set-Cookie.
C10_LogoutClearsCookie ==
  [][LogoutPost(req') =>
       IF ~extract_sid(req').some
         THEN resp'.status = 204 /\ resp'.set_cookie = Nothing
       ELSE IF /\ SessionOf(req', sessions).some
               /\ req'.body.fields.csrf #
                    SessionHash_encode_base64(SessionOf(req', sessions).v.csrf)
         THEN resp'.status = 400 /\ resp'.set_cookie = Nothing
       ELSE \/ resp'.status = 204 /\ resp'.set_cookie = ClearingCookie
            \/ resp'.status = 500 /\ resp'.set_cookie = Nothing /\ sessions' = sessions]_vars

\* An s= cookie that is no session id: 204 and no Set-Cookie.
C10_Witness ==
  /\ LogoutPost(req)
  /\ req.cookie = Some("s=abc")
  /\ resp.status = 204
  /\ resp.set_cookie = Nothing
  /\ sessions # {}

(***************************************************************************)
(* Properties of segment assembly (ViewSpec).                              *)
(***************************************************************************)
\* The ids visited for each s= selection are those of its range, in order.
VisitsRange ==
  \A k \in 1..Len(assembly) :
    assembly[k].rows.visited = id_range(assembly[k].sel.ids_start, assembly[k].sel.ids_end)

\* C4 as stated: in an accepted assembly the ids visited are start..end-1 in
\* ascending order and cur_off strictly increases from each to the next.
C4_AsStated ==
  built =>
    /\ VisitsRange
    /\ \A k \in 1..Len(assembly) :
         \A j \in 1..(Len(assembly[k].rows.offsets) - 1) :
           assembly[k].rows.offsets[j] < assembly[k].rows.offsets[j + 1]

\* C4: in an accepted assembly (one that reaches the builder's build step)
\* the ids visited for a selection are start, start+1, ..., end-1, each once
\* and in ascending order, and cur_off grows from each to the next by the
\* visited recording's duration: it never decreases, and stays the same
\* across a recording of zero duration.
C4_Contiguity ==
  built =>
    /\ VisitsRange
    /\ \A k \in 1..Len(assembly) :
         \A j \in 1..(Len(assembly[k].rows.offsets) - 1) :
           /\ assembly[k].rows.offsets[j + 1] =
                assembly[k].rows.offsets[j]
                  + recordings[assembly[k].rows.visited[j]].duration_90k
           /\ assembly[k].rows.offsets[j] <= assembly[k].rows.offsets[j + 1]

\* An accepted assembly over a recording of zero duration.
C4_Witness ==
  /\ built
  /\ resp.status = 200
  /\ \E k \in 1..Len(assembly) :
       /\ Len(assembly[k].rows.visited) >= 2
       /\ assembly[k].rows.offsets[1] = assembly[k].rows.offsets[2]

\* C5: a view request whose selection (one without an open id) names an id
\* that is not stored is answered 404, wherever in the range the id lies.
C5_MissingRecordingNotFound ==
  (/\ Served
   /\ Len(assembly) > 0
   /\ assembly[Len(assembly)].sel.kind = "Ok"
   /\ ~assembly[Len(assembly)].sel.open_id.some
   /\ \E id \in assembly[Len(assembly)].sel.ids_start..(assembly[Len(assembly)].sel.ids_end - 1) :
        id \notin DOMAIN recordings) =>
    resp.status = 404

(***************************************************************************)
(* Properties of live streams (LiveSpec).                                  *)
(***************************************************************************)
\* The parts the body makes of notifications when each build succeeds.
PartsOf(notifications) ==
  [k \in 1..Len(notifications) |-> live_part(notifications[k], TRUE).v]

\* C7: the parts a live response has emitted are those of the notifications
\* its callback accepted, one for one and in their order; while the body is
\* alive, the parts emitted and then those of the notifications still queued
\* are those of all the notifications accepted.
C7_LiveOrdering ==
  \A i \in 1..Len(live) :
    /\ Len(live[i].parts) <= Len(live[i].accepted)
    /\ live[i].parts = PartsOf(SubSeq(live[i].accepted, 1, Len(live[i].parts)))
    /\ live[i].body = "alive" =>
         live[i].parts \o PartsOf(live[i].queue) = PartsOf(live[i].accepted)

C7_Witness ==
  \E i \in 1..Len(live) :
    /\ Len(live[i].parts) = 2
    /\ live[i].parts[1].start < live[i].parts[2].start
    /\ live[i].body = "alive"

\* C8: when the writer flushes a fragment, the callback of a subscriber
\* whose body is alive accepts the notification and the subscriber stays;
\* the callback of one whose body is gone returns false and the subscriber
\* is removed at that flush.
C8_LiveRemoval ==
  [][flushed' # flushed =>
       \A i \in subs :
         IF live[i].body = "alive"
           THEN /\ i \in subs'
                /\ live'[i].accepted = Append(live[i].accepted, LiveSegment(flushed))
           ELSE /\ i \notin subs'
                /\ live'[i] = live[i]]_vars

C8_Witness ==
  /\ \E i \in 1..Len(live) : live[i].body = "dropped" /\ i \notin subs
  /\ \E j \in subs : live[j].body = "alive" /\ Len(live[j].accepted) > 0


(***************************************************************************)
(* LoginSpec: logins behind and not behind a trusted proxy.                *)
(***************************************************************************)
\* The X-Forwarded-Proto headers of the login requests: none, https, and
\* values that are not exactly https.
Protos == {Nothing, Some("https"), Some("http"), Some("HTTPS"), Some("https,http")}

LoginRequests ==
  {Usual([GoodLogin EXCEPT !.x_forwarded_proto = p]) : p \in Protos}
    \cup {Usual([GoodLogin EXCEPT !.x_forwarded_proto = Some("https"),
                                  !.body = Json([username |-> "slamb", password |-> "asdf"])]),
          Usual([GoodLogin EXCEPT !.x_forwarded_proto = Some("https"), !.host = Some("nvr")])}
    \cup {Usual([Get("/api/request", Nothing, Nothing) EXCEPT !.x_forwarded_proto = p]) :
            p \in Protos}
    \cup {Usual([Get("/api/", Nothing, Some(CookieOf(k))) EXCEPT !.x_forwarded_proto = p]) :
            k \in 0..(MaxSessions - 1), p \in {Nothing, Some("https")}}

LoginInit ==
  /\ allow_unauthenticated_permissions = Nothing
  /\ trust_forward_hdrs \in BOOLEAN
  /\ sessions = {}
  /\ recordings = (1 :> Row(2, 1)) @@ (2 :> Row(3, 1))
  /\ open = Nothing
  /\ NoLive
  /\ NoTasks
  /\ NoExchange
  /\ issued = {}
  /\ logged_out = {}
  /\ NoCall

LoginNext == Serve(LoginRequests)

LoginSpec == LoginInit /\ [][LoginNext]_vars

(***************************************************************************)
(* ParseSpec: Segments::parse and Path::decode called on texts composed    *)
(* from the parts of their grammars, and on texts outside them.            *)
(***************************************************************************)
\* The parts of START_ID[-END_ID][@OPEN_ID][.[REL_START_TIME]-[REL_END_TIME]]
\* (web.rs 66-68); an optional part that is absent is Nothing.
SegmentParts ==
  [start : {"0", "1", "5", "01", "2147483646", "2147483647", "2147483648", "99999999999"},
   end : {Nothing} \cup {Some(t) : t \in {"0", "1", "5", "06", "2147483646", "2147483647"}},
   open : {Nothing, Some("42"), Some("0"), Some("4294967296")},
   rel : {Nothing} \cup
         {Some([start |-> a, end |-> b]) :
            a \in {Nothing, Some("26"), Some("0")},
            b \in {Nothing, Some("42"), Some("26"), Some("0"), Some("9223372036854775808")}}]

\* The text of a selection's parts.
Segments_text(p) ==
  p.start
    \o (IF p.end.some THEN "-" \o p.end.v ELSE "")
    \o (IF p.open.some THEN "@" \o p.open.v ELSE "")
    \o (IF p.rel.some
          THEN "." \o (IF p.rel.v.start.some THEN p.rel.v.start.v ELSE "")
                   \o "-" \o (IF p.rel.v.end.some THEN p.rel.v.end.v ELSE "")
          ELSE "")

\* Texts SEGMENTS_RE does not match.
UnmatchedSegments ==
  {"", "a", "1-", "1@", "1.", "1.26", "1-5-6", "-1", "1 ", " 1", "1.26-42x", "1@42@43",
   "+1", "1@42-5", "1.26-42.1-2", "1-5@", "1,2", "1..26-42", "0x1", "1.-26-42"}

\* The calls of Segments::parse: on each text, by a build that checks
\* integer overflow and by one that does not.
SegmentsCalls ==
  {[fn |-> "Segments::parse", text |-> Segments_text(p), parts |-> Some(p),
    overflow_checks |-> c, rewritten |-> FALSE] : p \in SegmentParts, c \in BOOLEAN}
    \cup {[fn |-> "Segments::parse", text |-> t, parts |-> Nothing,
           overflow_checks |-> c, rewritten |-> FALSE] : t \in UnmatchedSegments, c \in BOOLEAN}

NotCalled == [kind |-> "none"]

\* Segments::parse on the text.
SegmentsParse ==
  /\ input.fn = "Segments::parse"
  /\ output = NotCalled
  /\ output' = Segments_parse(input.text, input.overflow_checks)
  /\ UNCHANGED <<config, sched, db, live, exchange, history, input>>

\* A selection written in the grammar: START-END with END inclusive, @OPEN
\* when there is an open id, and .REL_START-REL_END.
Segments_write(sel) ==
  to_string(sel.ids_start) \o "-" \o to_string(sel.ids_end - 1)
    \o (IF sel.open_id.some THEN "@" \o to_string(sel.open_id.v) ELSE "")
    \o "." \o to_string(sel.start_time) \o "-"
    \o (IF sel.end_time.some THEN to_string(sel.end_time.v) ELSE "")

\* Segments::parse on the text written for the selection the last call
\* returned.
SegmentsReparse ==
  /\ input.fn = "Segments::parse"
  /\ ~input.rewritten
  /\ output.kind = "Ok"
  /\ input' = [input EXCEPT !.text = Segments_write(output), !.parts = Nothing,
                             !.rewritten = TRUE]
  /\ output' = Segments_parse(Segments_write(output), input.overflow_checks)
  /\ UNCHANGED <<config, sched, db, live, exchange, history>>

\* URL paths by their parts:
\*   [kind |-> "plain", text]                     a path given whole
\*   [kind |-> "init", hex, suffix]               /api/init/<hex><suffix>
\*   [kind |-> "camera", uuid, slash, type_, tail]
\*                                  /api/cameras/<uuid>[/<type_><tail>]
PathParts ==
  {[kind |-> "plain", text |-> t] :
     t \in {"", "/", "/foo", "/api", "/apix/", "api/", "/index.html", "/API/", "//api/",
            "/cameras/" \o TEST_CAMERA_UUID \o "/", "/init/" \o "07cec464126825088ea86a07eddd6a00afa71559" \o ".mp4",
            "/api/", "/api/login", "/api/logout", "/api/request", "/api/signals",
            "/api/junk", "/api/login/", "/api/signals.txt", "/api//", "/api/Login",
            "/api/init", "/api/cameras", "/api/cameras/", "/api/init/"}}
    \cup {[kind |-> "init", hex |-> h, suffix |-> x] :
            h \in {"07cec464126825088ea86a07eddd6a00afa71559",
                   "0000000000000000000000000000000000000000",
                   "000000000000000000000000000000000000000x",
                   "000000000000000000000000000000000000000",
                   "00000000000000000000000000000000000000000"},
            x \in {".mp4", ".mp4.txt", ".txt", "", ".mp3", ".mp4.txt.txt", ".m4s", ".mp4/"}}
    \cup {[kind |-> "camera", uuid |-> u, slash |-> TRUE, type_ |-> t, tail |-> x] :
            u \in {TEST_CAMERA_UUID,
                   "35144640FF1E4619B0D54C74C185741C",
                   "urn:uuid:" \o TEST_CAMERA_UUID,
                   "asdf", "",
                   "35144640-ff1e-4619-b0d5-4c74c185741",
                   "35144640-ff1e-4619-b0d5-4c74c185741g",
                   "35144640ff1e-4619-b0d5-4c74c185741c-"},
            t \in {"", "main", "sub", "junk", "MAIN"},
            x \in {"", "/", "/recordings", "/view.mp4", "/view.mp4.txt", "/view.m4s",
                   "/view.m4s.txt", "/live.m4s", "/live.m4s.txt", "/junk", "/recordings/",
                   "/recordings.txt"}}
    \cup {[kind |-> "camera", uuid |-> u, slash |-> FALSE, type_ |-> "", tail |-> ""] :
            u \in {TEST_CAMERA_UUID, "asdf"}}

Path_text(p) ==
  CASE p.kind = "plain" -> p.text
    [] p.kind = "init" -> "/api/init/" \o p.hex \o p.suffix
    [] p.kind = "camera" ->
         "/api/cameras/" \o p.uuid \o (IF p.slash THEN "/" ELSE "") \o p.type_ \o p.tail

\* Path::decode on the URL path.
PathDecode ==
  /\ input.fn = "Path::decode"
  /\ output = NotCalled
  /\ output' = Path_decode(input.text)
  /\ UNCHANGED <<config, sched, db, live, exchange, history, input>>

ParseInit ==
  /\ allow_unauthenticated_permissions = Nothing
  /\ trust_forward_hdrs = FALSE
  /\ sessions = {}
  /\ recordings = <<>>
  /\ open = Nothing
  /\ NoLive
  /\ NoTasks
  /\ NoExchange
  /\ issued = {}
  /\ logged_out = {}
  /\ input \in SegmentsCalls
                \cup {[fn |-> "Path::decode", text |-> Path_text(p), parts |-> p] :
                        p \in PathParts}
  /\ output = NotCalled

ParseNext == SegmentsParse \/ SegmentsReparse \/ PathDecode

ParseSpec == ParseInit /\ [][ParseNext]_vars

(***************************************************************************)
(* Properties of the login cookie (LoginSpec).                             *)
(***************************************************************************)
\* The request was made over https as far as the server is told: forwarders
\* are trusted and X-Forwarded-Proto is exactly https.
DeemedSecure == trust_forward_hdrs /\ req.x_forwarded_proto = Some("https")

\* C11: a successful login's Set-Cookie is s=<base64 session id>; HttpOnly;
\* SameSite=Strict; Max-Age=2147483648; Path=/, with Secure among the
\* attributes iff forwarders are trusted and X-Forwarded-Proto is exactly
\* https, and the session it names is stored with the secure flag set in
\* exactly the same cases.
C11_LoginCookie ==
  (req.path = "/api/login" /\ req.method = "POST" /\ resp.status = 204) =>
    /\ resp.set_cookie.some
    /\ \E k \in 0..(MaxSessions - 1) :
         /\ resp.set_cookie.v =
              "s=" \o b64_encode(RawSessionId(k)) \o
              (IF DeemedSecure
                 THEN "; HttpOnly; Secure; SameSite=Strict; Max-Age=2147483648; Path=/"
                 ELSE "; HttpOnly; SameSite=Strict; Max-Age=2147483648; Path=/")
         /\ \E s \in sessions : s.hash = sid_hash(RawSessionId(k))
         /\ \A s \in sessions : s.hash = sid_hash(RawSessionId(k)) => s.secure = DeemedSecure

\* A login deemed secure after one that was not: both kinds of session are
\* stored.
C11_Witness ==
  /\ req.path = "/api/login"
  /\ resp.status = 204
  /\ DeemedSecure
  /\ resp.set_cookie.some
  /\ \E s \in sessions : s.secure
  /\ \E s \in sessions : ~s.secure

(***************************************************************************)
(* Properties of Segments::parse and Path::decode (ParseSpec).             *)
(***************************************************************************)
\* The numbers of SegmentParts that fit no integer type of a selection.
OutOfRange == {"2147483648", "99999999999", "4294967296", "9223372036854775808"}

\* The parts are numbers of their types, END is not below START and is an
\* id that has a successor, and REL_END is above REL_START.
ValidParts(p) ==
  /\ p.start \notin OutOfRange
  /\ p.end.some => p.end.v \notin OutOfRange
  /\ p.open.some => p.open.v \notin OutOfRange
  /\ p.rel.some =>
       /\ p.rel.v.start.some => p.rel.v.start.v \notin OutOfRange
       /\ p.rel.v.end.some => p.rel.v.end.v \notin OutOfRange
  /\ p.end.some => DecVal(p.end.v) >= DecVal(p.start)
  /\ DecVal(IF p.end.some THEN p.end.v ELSE p.start) < I32_MAX
  /\ (p.rel.some /\ p.rel.v.end.some) =>
       DecVal(p.rel.v.end.v) > (IF p.rel.v.start.some THEN DecVal(p.rel.v.start.v) ELSE 0)

\* The selection the grammar's parts stand for.
SelectionOf(p) ==
  [kind |-> "Ok",
   ids_start |-> DecVal(p.start),
   ids_end |-> (IF p.end.some THEN DecVal(p.end.v) ELSE DecVal(p.start)) + 1,
   open_id |-> IF p.open.some THEN Some(DecVal(p.open.v)) ELSE Nothing,
   start_time |-> IF p.rel.some /\ p.rel.v.start.some THEN DecVal(p.rel.v.start.v) ELSE 0,
   end_time |-> IF p.rel.some /\ p.rel.v.end.some THEN Some(DecVal(p.rel.v.end.v))
                ELSE Nothing]

\* C12: every selection Segments::parse returns has ids.end > ids.start,
\* ids.start >= 0, start_time >= 0 and, with an end time, end_time >
\* start_time.
C12_SelectionRanges ==
  (input.fn = "Segments::parse" /\ output.kind = "Ok") =>
    /\ output.ids_end > output.ids_start
    /\ output.ids_start >= 0
    /\ output.start_time >= 0
    /\ output.end_time.some => output.end_time.v > output.start_time

\* A selection of several recordings with both times returned.
C12_Witness ==
  /\ input.fn = "Segments::parse"
  /\ output.kind = "Ok"
  /\ output.ids_end > output.ids_start + 1
  /\ output.start_time > 0
  /\ output.end_time.some

\* C13: on START[-END][@OPEN][.[REL_START]-[REL_END]] Segments::parse
\* returns ids [START, END + 1), or [START, START + 1) without END, open_id
\* OPEN or none, start_time REL_START or 0, end_time REL_END or none: valid
\* parts give exactly this selection, and no text of parts gives another.
C13_GrammarToSelection ==
  (input.fn = "Segments::parse" /\ input.parts.some /\ output # NotCalled) =>
    /\ ValidParts(input.parts.v) => output = SelectionOf(input.parts.v)
    /\ output.kind = "Ok" => output = SelectionOf(input.parts.v)

\* "1-5@42.26-42": every part given.
C13_Witness ==
  /\ input.fn = "Segments::parse"
  /\ input.text = "1-5@42.26-42"
  /\ output = [kind |-> "Ok", ids_start |-> 1, ids_end |-> 6, open_id |-> Some(42),
               start_time |-> 26, end_time |-> Some(42)]

\* C14: Segments::parse returns an error for every text that does not match
\* the grammar or breaks a range constraint (END < START, REL_END <=
\* REL_START, a number that does not fit its type), and for the id 2^31-1,
\* whose successor overflows an i32.
C14_InvalidRejected ==
  (/\ input.fn = "Segments::parse"
   /\ output # NotCalled
   /\ ~input.rewritten
   /\ input.parts.some => ~ValidParts(input.parts.v)) =>
    output.kind = "Err"

\* C15: the selection Segments::parse returns, written back in the grammar,
\* is accepted by Segments::parse and gives the same selection.
C15_RoundTrip ==
  [][SegmentsReparse => (output'.kind = "Ok" /\ output' = output)]_vars

\* A selection with an open id and both times was written and parsed again.
C15_Witness ==
  /\ input.fn = "Segments::parse"
  /\ input.rewritten
  /\ input.text = "1-5@42.26-42"
  /\ output.kind = "Ok"

\* The routes of the paths given whole.
PlainRoutes ==
  ("/api/" :> "TopLevel") @@ ("/api/login" :> "Login") @@ ("/api/logout" :> "Logout")
    @@ ("/api/request" :> "Request") @@ ("/api/signals" :> "Signals")

\* The routes of a stream, each with its debug flag.
StreamRoutes ==
  ("/recordings" :> <<"StreamRecordings", FALSE>>)
    @@ ("/view.mp4" :> <<"StreamViewMp4", FALSE>>)
    @@ ("/view.mp4.txt" :> <<"StreamViewMp4", TRUE>>)
    @@ ("/view.m4s" :> <<"StreamViewMp4Segment", FALSE>>)
    @@ ("/view.m4s.txt" :> <<"StreamViewMp4Segment", TRUE>>)
    @@ ("/live.m4s" :> <<"StreamLiveMp4Segments", FALSE>>)

\* The route of a path's parts, with its debug flag: an API pattern matched
\* exactly, NotFound for any other path under /api/, Static elsewhere.
RouteOf(p) ==
  CASE p.kind = "plain" ->
         IF ~starts_with(p.text, "/api/") THEN <<"Static", FALSE>>
         ELSE IF p.text \in DOMAIN PlainRoutes THEN <<PlainRoutes[p.text], FALSE>>
         ELSE <<"NotFound", FALSE>>
    [] p.kind = "init" ->
         IF /\ p.hex \in {"07cec464126825088ea86a07eddd6a00afa71559",
                          "0000000000000000000000000000000000000000"}
            /\ p.suffix \in {".mp4", ".mp4.txt"}
           THEN <<"InitSegment", p.suffix = ".mp4.txt">>
           ELSE <<"NotFound", FALSE>>
    [] p.kind = "camera" ->
         IF \/ ~p.slash
            \/ p.uuid \notin {TEST_CAMERA_UUID, "35144640FF1E4619B0D54C74C185741C",
                              "urn:uuid:" \o TEST_CAMERA_UUID}
           THEN <<"NotFound", FALSE>>
         ELSE IF p.type_ = "" /\ p.tail = "" THEN <<"Camera", FALSE>>
         ELSE IF p.type_ \in {"main", "sub"} /\ p.tail \in DOMAIN StreamRoutes
           THEN StreamRoutes[p.tail]
         ELSE <<"NotFound", FALSE>>

\* C16: Path::decode returns one route for every URL path: Static for a path
\* that does not start with /api/, never Static for one that does, and
\* NotFound unless an API pattern is matched exactly (a valid UUID, a known
\* stream type, 40 hexadecimal digits for an init segment), with the debug
\* flag set iff the path ends with .txt.
C16_RouterTotal ==
  (input.fn = "Path::decode" /\ output # NotCalled) =>
    /\ output.variant \in
         {"Static", "NotFound", "TopLevel", "Login", "Logout", "Request", "Signals",
          "InitSegment", "Camera", "StreamRecordings", "StreamViewMp4",
          "StreamViewMp4Segment", "StreamLiveMp4Segments"}
    /\ ~starts_with(input.text, "/api/") => output.variant = "Static"
    /\ starts_with(input.text, "/api/") => output.variant # "Static"
    /\ output.variant = RouteOf(input.parts)[1]
    /\ output.debug = RouteOf(input.parts)[2]
    /\ output.debug => ends_with(input.text, ".txt")
    /\ output.uuid.some <=>
         output.variant \in {"Camera", "StreamRecordings", "StreamViewMp4",
                             "StreamViewMp4Segment", "StreamLiveMp4Segments"}
    /\ output.sha1.some <=> output.variant = "InitSegment"

\* The debug form of an init segment's path was decoded.
C16_Witness ==
  /\ input.fn = "Path::decode"
  /\ output # NotCalled
  /\ input.text = "/api/init/07cec464126825088ea86a07eddd6a00afa71559.mp4.txt"
  /\ output.variant = "InitSegment"
  /\ output.debug

(***************************************************************************)
(* Properties of the view requests' parameters (ViewSpec).                 *)
(***************************************************************************)
\* The request is a view request for the test camera's main stream by a
\* caller with view_video.
ViewByViewer ==
  /\ Served
  /\ req.path \in {CAMERA \o "/main/view.mp4", CAMERA \o "/main/view.mp4.txt",
                   CAMERA \o "/main/view.m4s"}
  /\ allow_unauthenticated_permissions.v.view_video

\* The keys of the request's query, in order.
QueryKeys == [i \in 1..Len(query_pairs(req)) |-> query_pairs(req)[i][1]]

\* C17 as stated: a view request whose query has a key other than s and ts
\* is answered 400, whatever the other parameters and their order.
C17_AsStated ==
  (ViewByViewer /\ \E i \in DOMAIN QueryKeys : QueryKeys[i] \notin {"s", "ts"}) =>
    resp.status = 400

\* C17: a view request whose query has a key other than s and ts is
\* answered 400 when no s parameter precedes that key or every s parameter
\* preceding it is accepted; otherwise the response is the one of the first
\* s parameter that fails.
C17_UnknownKeyRejected ==
  (ViewByViewer /\ \E i \in DOMAIN QueryKeys : QueryKeys[i] \notin {"s", "ts"}) =>
    /\ QueryKeys[1] \notin {"s"} => resp.status = 400
    /\ (\A i \in DOMAIN assembly : ~assembly[i].err.some) => resp.status = 400
    /\ resp.status # 400 =>
         /\ assembly # <<>>
         /\ assembly[Len(assembly)].err = Some([resp EXCEPT !.cache_control = Nothing])
    /\ ~built

\* An unknown key after an s parameter that was accepted.
C17_Witness ==
  /\ ViewByViewer
  /\ req.query = Some("s=1&junk=1")
  /\ Len(assembly) = 1
  /\ ~assembly[1].err.some
  /\ resp.status = 400

\* C18: a view.mp4 request without an s parameter (nothing is appended to
\* the builder) is answered 400, not 200 and not 500.
C18_NoSegmentsBadRequest ==
  (/\ ViewByViewer
   /\ req.path # CAMERA \o "/main/view.m4s"
   /\ \A i \in DOMAIN QueryKeys : QueryKeys[i] = "ts") =>
    resp.status = 400

\* view.mp4 without a query reached the builder's build step and was refused.
C18_Witness ==
  /\ ViewByViewer
  /\ req.path = CAMERA \o "/main/view.mp4"
  /\ req.query = Nothing
  /\ built
  /\ resp.status = 400

(***************************************************************************)
(* Properties of the request methods (Spec).                               *)
(***************************************************************************)
\* C19: a request to /api/login or /api/logout with a method other than
\* POST is answered 405 whatever its cookie, headers and body, and neither
\* creates nor revokes a session; a request to /api/signals by an
\* authenticated caller with a method other than POST, GET and HEAD is
\* answered 405.
C19_MethodNotAllowed ==
  [][/\ (req'.path \in {"/api/login", "/api/logout"} /\ req'.method # "POST") =>
          /\ resp'.status = 405
          /\ ~resp'.set_cookie.some
          /\ invoked' = {}
          /\ sessions' = sessions
          /\ history' = history
     /\ (/\ req'.path = "/api/signals"
         /\ req'.method \notin {"POST", "GET", "HEAD"}
         /\ SessionOf(req', sessions).some \/ allow_unauthenticated_permissions.some) =>
          resp'.status = 405]_vars

\* A DELETE of /api/logout with a valid session's cookie and its CSRF token
\* was answered 405, and the session is still valid.
C19_Witness ==
  /\ req.path = "/api/logout"
  /\ req.method = "DELETE"
  /\ csrf_valid(req)
  /\ SessionOf(req, sessions).some
  /\ resp.status = 405

(***************************************************************************)
(* Properties of the live requests' precondition (LiveSpec).               *)
(***************************************************************************)
\* C20: a live.m4s request by a caller with view_video while the database
\* has no open id is answered 412; a multipart live response is produced
\* only while the database has an open id, and its X-Open-Id is that id.
C20_LiveNeedsOpen ==
  /\ (/\ Served
      /\ Routes[req.path].variant = "StreamLiveMp4Segments"
      /\ allow_unauthenticated_permissions.v.view_video) =>
       /\ ~open.some => resp.status = 412
       /\ resp.status = 412 => ~open.some
  /\ resp.content_type = Some("multipart/mixed; boundary=B") =>
       /\ open.some
       /\ resp.status = 200
       /\ resp.x_open_id = Some(IF open.v = 2 THEN "2" ELSE "12")
  /\ \A i \in DOMAIN live : open.some /\ live[i].open_id = open.v

\* A live request for a camera the read-only database does not have was
\* answered 412.
C20_Witness ==
  /\ req.path = OTHER_CAMERA \o "/main/live.m4s"
  /\ allow_unauthenticated_permissions.v.view_video
  /\ ~open.some
  /\ resp.status = 412

(***************************************************************************)
(* Properties of the segment assembly (ViewSpec).                          *)
(***************************************************************************)
\* The total duration of the stored recordings among ids.
RECURSIVE Total(_)
Total(ids) ==
  IF Len(ids) = 0 THEN 0
  ELSE (IF Head(ids) \in DOMAIN recordings THEN recordings[Head(ids)].duration_90k ELSE 0)
         + Total(Tail(ids))

\* The sum of the lengths of the subranges.
RECURSIVE Lengths(_)
Lengths(ranges) ==
  IF Len(ranges) = 0 THEN 0 ELSE (Head(ranges).end - Head(ranges).start) + Lengths(Tail(ranges))

\* The ids of a selection.
IdsOf(sel) == id_range(sel.ids_start, sel.ids_end)

\* The k-th s= parameter of the request was assembled without an error: all
\* its rows were visited and its checks passed.
Assembled(k) == ~assembly[k].err.some

\* C23: a visited recording with duration d at offset cur_off is appended
\* iff [cur_off, cur_off + d) meets [start_time, end_time or infinity), with
\* the subrange [max(0, start_time - cur_off), min(d, end_time - cur_off)),
\* so every appended subrange is non-empty.
C23_AppendIffIntersects ==
  \A k \in DOMAIN assembly :
    Assembled(k) =>
      /\ \A j \in DOMAIN assembly[k].rows.visited :
           (\E a \in DOMAIN assembly[k].rows.appended :
              assembly[k].rows.appended[a].id = assembly[k].rows.visited[j])
             <=> (Max(assembly[k].rows.offsets[j], assembly[k].sel.start_time)
                    < (IF assembly[k].sel.end_time.some
                         THEN Min(assembly[k].rows.offsets[j]
                                    + recordings[assembly[k].rows.visited[j]].duration_90k,
                                  assembly[k].sel.end_time.v)
                         ELSE assembly[k].rows.offsets[j]
                                + recordings[assembly[k].rows.visited[j]].duration_90k))
      /\ \A a \in DOMAIN assembly[k].rows.appended :
           assembly[k].rows.appended[a].start < assembly[k].rows.appended[a].end

\* C24: a selection whose end_time is above the total duration of the
\* recordings of its id range is answered 400; one whose end_time equals the
\* total duration is accepted.
C24_EndTimeBeyondRecordings ==
  \A k \in DOMAIN assembly :
    (/\ assembly[k].sel.kind = "Ok"
     /\ assembly[k].sel.end_time.some
     /\ ~assembly[k].rows.err.some
     /\ assembly[k].rows.visited = IdsOf(assembly[k].sel)) =>
      /\ assembly[k].sel.end_time.v > Total(IdsOf(assembly[k].sel)) =>
           /\ resp.status = 400
           /\ resp.body = "end time is beyond specified recordings"
           /\ ~built
      /\ assembly[k].sel.end_time.v <= Total(IdsOf(assembly[k].sel)) => Assembled(k)

\* A selection that ends exactly with its recordings was served.
C24_Witness ==
  /\ resp.status = 200
  /\ Len(assembly) = 1
  /\ assembly[1].sel.end_time = Some(Total(IdsOf(assembly[1].sel)))
  /\ Len(assembly[1].rows.visited) = 2

\* C25: a selection with @OPEN is accepted only if every recording of its
\* id range is stored with that open id; a recording of the range with
\* another open id makes the request fail with an error response, and no
\* movie is served.
C25_OpenIdGuard ==
  \A k \in DOMAIN assembly :
    (assembly[k].sel.kind = "Ok" /\ assembly[k].sel.open_id.some) =>
      /\ Assembled(k) =>
           \A i \in DOMAIN IdsOf(assembly[k].sel) :
             /\ IdsOf(assembly[k].sel)[i] \in DOMAIN recordings
             /\ recordings[IdsOf(assembly[k].sel)[i]].open_id = assembly[k].sel.open_id.v
      /\ (\E i \in DOMAIN IdsOf(assembly[k].sel) :
            /\ IdsOf(assembly[k].sel)[i] \in DOMAIN recordings
            /\ recordings[IdsOf(assembly[k].sel)[i]].open_id # assembly[k].sel.open_id.v) =>
           /\ ~Assembled(k)
           /\ resp.status >= 400
           /\ ~built

\* The second recording of the range was written under another open id.
C25_Witness ==
  /\ req.query = Some("s=1-2@1")
  /\ Len(assembly) = 1
  /\ assembly[1].rows.visited = <<1, 2>>
  /\ recordings[2].open_id = 2
  /\ resp.status = 500

\* C28: for an assembled selection whose start_time is not above the total
\* duration T of its recordings, the appended subranges' lengths sum to
\* end_time - start_time, or to T - start_time without an end time, and the
\* appended recordings are a run of consecutive ids in ascending order.
C28_AppendedLengths ==
  \A k \in DOMAIN assembly :
    (Assembled(k) /\ assembly[k].sel.start_time <= Total(IdsOf(assembly[k].sel))) =>
      /\ Lengths(assembly[k].rows.appended) =
           (IF assembly[k].sel.end_time.some THEN assembly[k].sel.end_time.v
            ELSE Total(IdsOf(assembly[k].sel))) - assembly[k].sel.start_time
      /\ \A a \in 1..(Len(assembly[k].rows.appended) - 1) :
           assembly[k].rows.appended[a + 1].id = assembly[k].rows.appended[a].id + 1

\* Both recordings of a selection were appended, each trimmed.
C28_Witness ==
  /\ req.query = Some("s=1-2.1-4")
  /\ resp.status = 200
  /\ Len(assembly) = 1
  /\ assembly[1].rows.appended =
       <<[id |-> 1, start |-> 1, end |-> 2], [id |-> 2, start |-> 0, end |-> 2]>>

(***************************************************************************)
(* Properties of the live subscriptions (LiveSpec).                        *)
(***************************************************************************)
\* C29: a live.m4s request that fails (401, 412 or 404) leaves the
\* subscribers and the live responses as they were; a request that succeeds
\* adds exactly one subscription, that of its response, made with the open
\* id the handler read.
C29_SubscribeOnSuccessOnly ==
  [][(exchange' # exchange \/ Len(live') # Len(live)) =>
       IF resp'.status = 200
         THEN /\ Len(live') = Len(live) + 1
              /\ SubSeq(live', 1, Len(live)) = live
              /\ subs' = subs \cup {Len(live) + 1}
              /\ Len(live) + 1 \notin subs
              /\ live'[Len(live) + 1].open_id = open.v
              /\ resp'.body = [stream |-> Len(live) + 1]
         ELSE /\ resp'.status \in {401, 412, 404}
              /\ subs' = subs
              /\ live' = live]_vars

\* A request for a stream the camera does not have failed after another
\* had subscribed.
C29_Witness ==
  /\ req.path = CAMERA \o "/sub/live.m4s"
  /\ resp.status = 404
  /\ Len(live) = 1
  /\ subs = {1}

\* C22: the callback of a subscriber whose body is alive enqueues the
\* notification whatever the number of notifications still waiting in the
\* channel, and a flush is never held up by the subscribers' channels.
C22_CallbackNeverBlocks ==
  /\ [](flushed < MaxFlush /\ open.some => ENABLED WriterFlush)
  /\ [][flushed' # flushed =>
          \A i \in subs :
            live[i].body = "alive" =>
              /\ live'[i].queue = Append(live[i].queue, LiveSegment(flushed))
              /\ Len(live'[i].queue) = Len(live[i].queue) + 1]_vars

\* A channel holds every notification of the writer, none consumed.
C22_Witness ==
  \E i \in subs :
    /\ live[i].body = "alive"
    /\ Len(live[i].queue) = flushed
    /\ flushed >= 2
    /\ live[i].parts = <<>>

(***************************************************************************)
(* Properties of repeated logouts (Spec).                                  *)
(***************************************************************************)
\* C30: once a CSRF-valid logout has succeeded for a cookie, a POST
\* /api/logout with that cookie and any csrf value is answered 204 with the
\* clearing Set-Cookie, whether or not a revocation would succeed (none is
\* attempted), and leaves the stored sessions as they are.
C30_LogoutIdempotent ==
  \A c \in logged_out : \A t \in Csrfs : \A revoke_ok \in BOOLEAN :
    Let(serve(Post("/api/logout", Some(c), Json([csrf |-> t])), Env(revoke_ok, TRUE)),
        LAMBDA out :
          /\ out.resp.status = 204
          /\ out.resp.set_cookie = ClearingCookie
          /\ out.sessions = sessions
          /\ out.invoked = {"logout"})

\* A logout was repeated with the cookie of a session already logged out
\* and a csrf value that is not the session's.
C30_Witness ==
  /\ LogoutPost(req)
  /\ req.cookie.some
  /\ req.cookie.v \in logged_out
  /\ req.body.fields.csrf = ""
  /\ \E s \in sessions : s.hash = sid_hash(extract_sid(req).v) /\ s.revoked
  /\ resp.status = 204
  /\ resp.set_cookie = ClearingCookie

(***************************************************************************)
(* DenySpec: view and live requests by a caller without view_video,        *)
(* against databases with different contents.                              *)
(***************************************************************************)
DenyInit ==
  /\ allow_unauthenticated_permissions \in
       {Some(Permissions(FALSE, TRUE, TRUE)), Some(Permissions(FALSE, FALSE, FALSE))}
  /\ trust_forward_hdrs = FALSE
  /\ sessions = {}
  /\ recordings \in RecordingSets
  /\ open \in {Nothing, Some(2)}
  /\ NoLive
  /\ NoTasks
  /\ NoExchange
  /\ issued = {}
  /\ logged_out = {}
  /\ NoCall

DenyNext == Serve(ViewRequests \cup LiveRequests)

DenySpec == DenyInit /\ [][DenyNext]_vars

\* C27: a view.mp4, view.m4s or live.m4s request by a caller without
\* view_video is answered 401, whatever the camera, the stream, the stored
\* recordings, the open id and the query; nothing of the query is examined
\* and nothing is subscribed.
C27_ViewVideoRequired ==
  (/\ Served
   /\ Routes[req.path].variant \in
        {"StreamViewMp4", "StreamViewMp4Segment", "StreamLiveMp4Segments"}) =>
    /\ resp.status = 401
    /\ resp.body = "view_video required"
    /\ assembly = <<>>
    /\ ~built
    /\ subs = {}
    /\ live = <<>>

\* A live request that would otherwise have subscribed was refused.
C27_Witness ==
  /\ req.path = CAMERA \o "/main/live.m4s"
  /\ open.some
  /\ 2 \in DOMAIN recordings
  /\ resp.status = 401
  /\ resp.body = "view_video required"

(***************************************************************************)
(* LiveFairSpec: the live responses with clients that keep reading.  hyper *)
(* polls the body of a response whose client reads, and the stream's       *)
(* receiver is ready whenever a notification is queued, so a body with a   *)
(* notification waiting is eventually polled; the recording's row is       *)
(* stored and the part's build succeeds.                                   *)
(***************************************************************************)
BodyRead(i) ==
  /\ i \in 1..Len(live)
  /\ live[i].body = "alive"
  /\ Len(live[i].queue) > 0
  /\ live' = [live EXCEPT ![i] = body_next(live[i], TRUE)]
  /\ UNCHANGED <<config, sched, db, exchange, history, call>>

LiveFairNext == ServeLive \/ WriterFlush \/ \E i \in 1..MaxLive : BodyRead(i)

LiveFairSpec ==
  /\ LiveInit
  /\ [][LiveFairNext]_vars
  /\ \A i \in 1..MaxLive : WF_vars(BodyRead(i))

\* C26: with clients that keep reading, stored rows and builds that succeed,
\* the k-th notification a response's callback accepted is eventually the
\* k-th part the response emitted, carrying the notification's recording id
\* and time range; no response ever has more parts than notifications
\* accepted, so each is emitted once.
C26_AcceptedEventuallyEmitted ==
  /\ \A i \in 1..MaxLive : \A k \in 1..MaxFlush :
       (Len(live) >= i /\ Len(live[i].accepted) >= k)
         ~> (/\ Len(live) >= i
             /\ Len(live[i].parts) >= k
             /\ live[i].parts[k] = [recording |-> live[i].accepted[k].recording,
                                    start |-> live[i].accepted[k].start,
                                    end |-> live[i].accepted[k].end])
  /\ [](\A i \in 1..Len(live) :
          /\ Len(live[i].parts) + Len(live[i].queue) = Len(live[i].accepted)
          /\ \A j, k \in 1..Len(live[i].parts) : live[i].parts[j] = live[i].parts[k] => j = k)

\* Every notification two responses accepted has been emitted by each.
C26_Witness ==
  /\ Len(live) = 2
  /\ \A i \in 1..2 :
       /\ Len(live[i].accepted) >= 1
       /\ Len(live[i].parts) = Len(live[i].accepted)
       /\ live[i].queue = <<>>
  /\ Len(live[1].parts) = 2

(***************************************************************************)
(* LockSpec: the database's mutex and the futures of the requests in       *)
(* flight.  A future is the sequence of the steps its handler takes on the *)
(* mutex and the points where it is suspended:                             *)
(*   lock    self.db.lock() (arg: its line), blocking while another holds  *)
(*           the mutex;                                                    *)
(*   call    what is done under the guard; when arg is not 0 it may fail,  *)
(*           the function returns (the guard is dropped with its scope)    *)
(*           and the future continues arg steps ahead;                     *)
(*   unlock  the end of the guard's scope;                                 *)
(*   await   a point where the future is suspended until hyper has the     *)
(*           request's body ("body"), the channel has a notification       *)
(*           ("next") or the client has taken the bytes ("write");         *)
(*   build   FileBuilder::build;                                           *)
(*   branch  continue either at the next step or arg steps from here;      *)
(*   goto    continue arg steps from here;                                 *)
(*   end     the future is complete.                                       *)
(***************************************************************************)
Ins(op, arg) == [op |-> op, arg |-> arg]

\* Service::authenticate (web.rs 689-722): without a session cookie the
\* database is not consulted; with one, the guard is a temporary of the
\* if let and is dropped when the function returns.
authenticate_steps ==
  <<Ins("branch", 4), Ins("lock", 696), Ins("call", 0), Ins("unlock", 0)>>

\* A handler that serve runs to completion (wrap_r): top_level (web.rs 301),
\* camera (312), stream_recordings (347), init_segment (380), get_signals
\* (681).
sync_steps ==
  authenticate_steps
    \o <<Ins("lock", 301), Ins("call", 2), Ins("unlock", 0), Ins("await", "write"), Ins("end", 0)>>

\* with_json_body and then login (web.rs 570), logout (604) or post_signals
\* (645).
json_steps ==
  authenticate_steps
    \o <<Ins("await", "body"), Ins("lock", 570), Ins("call", 2), Ins("unlock", 0),
         Ins("await", "write"), Ins("end", 0)>>

\* stream_view_mp4 (web.rs 396-510): the stream's lookup, then for each s
\* parameter the rows under a guard of its own, then the build.
view_steps ==
  authenticate_steps
    \o <<Ins("lock", 403), Ins("call", 7), Ins("unlock", 0),
         Ins("lock", 435), Ins("call", 4), Ins("unlock", 0), Ins("branch", -3),
         Ins("build", 502), Ins("await", "write"), Ins("end", 0)>>

\* A body that keeps the guard it fetched the row under until the part has
\* been written.
live_steps_holding ==
  authenticate_steps
    \o <<Ins("lock", 874), Ins("call", 11), Ins("unlock", 0), Ins("await", "write"),
         Ins("await", "next"), Ins("lock", 897), Ins("call", 5),
         Ins("build", 915), Ins("await", "write"), Ins("unlock", 0), Ins("goto", -6),
         Ins("end", 0), Ins("await", "write"), Ins("end", 0)>>

\* stream_live_m4s (web.rs 865-950): the subscription under one guard, the
\* response's head, then the body: for each notification the row under a
\* guard (web.rs 896-911), the build (915) and the part's bytes.  A failed
\* subscription answers with the error; a failed row ends the body.
live_steps ==
  authenticate_steps
    \o <<Ins("lock", 874), Ins("call", 11), Ins("unlock", 0), Ins("await", "write"),
         Ins("await", "next"), Ins("lock", 897), Ins("call", 5), Ins("unlock", 0),
         Ins("build", 915), Ins("await", "write"), Ins("goto", -6),
         Ins("end", 0), Ins("await", "write"), Ins("end", 0)>>

Programs == {sync_steps, json_steps, view_steps, live_steps}

\* The step task t is at.
At(t) == tasks[t].code[tasks[t].pc]

LockInit ==
  /\ allow_unauthenticated_permissions = Some(Permissions(TRUE, FALSE, FALSE))
  /\ trust_forward_hdrs = FALSE
  /\ sessions = {}
  /\ recordings = (1 :> Row(2, 1)) @@ (2 :> Row(3, 1))
  /\ open = Some(2)
  /\ NoLive
  /\ NoTasks
  /\ NoExchange
  /\ issued = {}
  /\ logged_out = {}
  /\ NoCall

\* hyper calls Service::serve for a request.
Start(t) ==
  /\ tasks[t] = Idle
  /\ \E code \in Programs : tasks' = [tasks EXCEPT ![t] = [code |-> code, pc |-> 1]]
  /\ UNCHANGED <<config, db, live, exchange, history, call, lock>>

\* Task t takes its next step; taken: the call fails or the branch is
\* followed.
Step(t) ==
  /\ tasks[t] # Idle
  /\ \E taken \in BOOLEAN :
       /\ CASE At(t).op = "lock" -> lock = 0 /\ ~taken
            [] At(t).op = "unlock" -> lock = t /\ ~taken
            [] At(t).op \in {"call", "branch"} -> (taken => At(t).arg # 0)
            [] At(t).op = "goto" -> taken
            [] OTHER -> ~taken
       /\ lock' = CASE At(t).op = "lock" -> t
                    [] At(t).op = "unlock" -> 0
                    [] At(t).op = "call" /\ taken /\ lock = t -> 0
                    [] OTHER -> lock
       /\ tasks' = [tasks EXCEPT ![t] =
                      IF At(t).op = "end" THEN Idle
                      ELSE [@ EXCEPT !.pc = IF taken THEN @ + At(t).arg ELSE @ + 1]]
  /\ UNCHANGED <<config, db, live, exchange, history, call>>

\* The client goes away while the future is suspended: hyper drops the
\* future, and a guard it holds with it.
Cancel(t) ==
  /\ tasks[t] # Idle
  /\ At(t).op = "await"
  /\ tasks' = [tasks EXCEPT ![t] = Idle]
  /\ lock' = IF lock = t THEN 0 ELSE lock
  /\ UNCHANGED <<config, db, live, exchange, history, call>>

LockNext == \E t \in 1..MaxTasks : Start(t) \/ Step(t) \/ Cancel(t)

LockSpec == LockInit /\ [][LockNext]_vars

\* C21: no future holds the database's mutex while it is suspended (on
\* the request's body, on the next live notification, on the response's
\* bytes), and the guard a live body fetched the row under is released
\* before the part is built and written.
C21_NoLockAcrossAwait ==
  \A t \in 1..MaxTasks :
    /\ tasks[t] = Idle => lock # t
    /\ tasks[t] # Idle =>
         /\ At(t).op \in {"await", "build", "end"} => lock # t
         /\ lock = t => At(t).op \in {"call", "unlock"}

\* A live body is building a part while another future holds the mutex,
\* after the body fetched the row.
C21_Witness ==
  \E t, u \in 1..MaxTasks :
    /\ tasks[t].code = live_steps
    /\ tasks[t] # Idle
    /\ At(t) = Ins("build", 915)
    /\ lock = u
    /\ u # t

====
